---- MODULE Spec2Model ----
(***************************************************************************)
(* Verification model of coddle-sleep-coach.                               *)
(*                                                                         *)
(* Part 1 - the notification decision logic and history state machine of   *)
(*          src/services/notifications.ts (specification Spec, and SpecCap *)
(*          which starts from a history one item below the cap).          *)
(*                                                                         *)
(* Time is an integer number of clock units.  Handles returned by the      *)
(* delivery service are fresh positive integers, 0 stands for null.        *)
(* The external collaborators may fail: the delivery service's primitives  *)
(* may raise, and a write of the history to storage may raise; the code    *)
(* catches both, and the model draws both outcomes.                        *)
(*                                                                         *)
(* Part 2 - the pattern learner of src/services/learner.ts with the age    *)
(*          baselines of src/utils/ageBaseline.ts (SpecLearner).           *)
(*                                                                         *)
(* Part 3 - the schedule generator of src/services/scheduler.ts            *)
(*          (SpecSched).                                                   *)
(*                                                                         *)
(* Part 4 - the session store of src/stores/sleepSessionsStore.ts with the *)
(*          timer and manual-entry handlers of the sleep log screen        *)
(*          (SpecStore).  The learner update a store operation schedules   *)
(*          for a later idle moment is a run of Part 2.                    *)
(*                                                                         *)
(* Part 5 - the coach of src/services/coach.ts (SpecCoach).                *)
(*                                                                         *)
(* Part 6 - the notification service with overlapping calls (SpecAsync,    *)
(*          SpecOverlap).                                                  *)
(*                                                                         *)
(* Part 7 - the schedule store under the schedule screen (SpecScreen).     *)
(*                                                                         *)
(* Part 8 - the session store with overlapping calls (SpecStoreAsync).     *)
(***************************************************************************)
EXTENDS Integers, Sequences, FiniteSets, TLC

VARIABLES history, pending, clock, nextHandle, made, appended, bulk, last,
          tasks, learner, schedule, store, coach

vars == <<history, pending, clock, nextHandle, made, appended, bulk, last,
          tasks, learner, schedule, store, coach>>

\* The variables of the learner, of the schedule generator, of the session
\* store and of the coach, which no operation of the notification service
\* touches.
coreVars == <<learner, schedule, store, coach>>

(***************************************************************************)
(* Bounds of the model.                                                    *)
(***************************************************************************)
MaxBlocks == 2
MaxClock == 2
MaxBatch == 2
MaxItems == 2

(***************************************************************************)
(* Program constants.                                                      *)
(***************************************************************************)
HistoryCap == 100

NoHandle == 0

BlockIds == 1..MaxBlocks

\* The start instant of schedule block b (block.startISO).
BlockStart(b) == b

Statuses == {"scheduled", "canceled", "sent"}

(***************************************************************************)
(* saveNotificationToHistory: push the item, keep the last 100, save.      *)
(***************************************************************************)
TrimDropsNewest(h) ==
  IF Len(h) > HistoryCap THEN SubSeq(h, 1, HistoryCap) ELSE h

Trim(h) ==
  IF Len(h) > HistoryCap THEN SubSeq(h, Len(h) - HistoryCap + 1, Len(h)) ELSE h

HistoryItem(seq, b, handle, status) ==
  [id |-> seq, notificationId |-> handle, scheduleBlockId |-> b, status |-> status]

\* The persisted history after saveNotificationToHistory; a failed write is
\* caught and leaves the persisted history as it was.
SaveNotificationToHistory(h, item, writeOk) ==
  IF writeOk THEN Trim(Append(h, item)) ELSE h

(***************************************************************************)
(* scheduleNotificationForBlock: the branch taken.                         *)
(*   now1 is time.now() (line 98), now2 is new Date() (line 108).          *)
(***************************************************************************)
DecisionNoPermissionCheck(perm, start, now1, now2) ==
  IF start < now1 THEN "past"
  ELSE IF start <= now2 THEN "notFuture"
  ELSE "request"

DecisionPastIsCanceled(perm, start, now1, now2) ==
  IF ~perm THEN "denied"
  ELSE IF start <= now2 THEN "notFuture"
  ELSE "request"

Decision(perm, start, now1, now2) ==
  IF ~perm THEN "denied"
  ELSE IF start < now1 THEN "past"
  ELSE IF start <= now2 THEN "notFuture"
  ELSE "request"

\* The whole of scheduleNotificationForBlock on persisted history h, delivery
\* service pend: the new history and delivery service, the value returned and
\* the number of requests made to the scheduling primitive.
ScheduleNotificationForBlock(h, pend, nh, seq, b, perm, now1, now2, raised, writeOk) ==
  LET branch == Decision(perm, BlockStart(b), now1, now2)
  IN  CASE branch = "denied" ->
             [history |-> SaveNotificationToHistory(h, HistoryItem(seq, b, NoHandle, "canceled"), writeOk),
              pending |-> pend, nextHandle |-> nh, ret |-> NoHandle,
              requests |-> 0, branch |-> branch]
        [] branch = "past" ->
             [history |-> SaveNotificationToHistory(h, HistoryItem(seq, b, NoHandle, "sent"), writeOk),
              pending |-> pend, nextHandle |-> nh, ret |-> NoHandle,
              requests |-> 0, branch |-> branch]
        [] branch = "notFuture" ->
             [history |-> SaveNotificationToHistory(h, HistoryItem(seq, b, NoHandle, "canceled"), writeOk),
              pending |-> pend, nextHandle |-> nh, ret |-> NoHandle,
              requests |-> 0, branch |-> branch]
        [] branch = "request" /\ raised ->
             [history |-> SaveNotificationToHistory(h, HistoryItem(seq, b, NoHandle, "canceled"), writeOk),
              pending |-> pend, nextHandle |-> nh, ret |-> NoHandle,
              requests |-> 1, branch |-> branch]
        [] OTHER ->
             [history |-> SaveNotificationToHistory(h, HistoryItem(seq, b, nh, "scheduled"), writeOk),
              pending |-> pend \cup {[handle |-> nh, block |-> b]},
              nextHandle |-> nh + 1, ret |-> nh,
              requests |-> 1, branch |-> branch]

(***************************************************************************)
(* cancelNotification, cancelAllNotifications, markNotificationAsSent on a *)
(* loaded history.  find() returns the first item carrying the handle.     *)
(***************************************************************************)
FindByHandle(h, handle) ==
  IF \E i \in DOMAIN h : h[i].notificationId = handle
  THEN CHOOSE i \in DOMAIN h :
         /\ h[i].notificationId = handle
         /\ \A j \in DOMAIN h : h[j].notificationId = handle => i <= j
  ELSE 0

SetStatusAnyState(h, handle, status) ==
  LET i == FindByHandle(h, handle)
  IN  IF i # 0 THEN [h EXCEPT ![i].status = status] ELSE h

\* if (item && item.status === 'scheduled') item.status = status
SetStatus(h, handle, status) ==
  LET i == FindByHandle(h, handle)
  IN  IF i # 0 /\ h[i].status = "scheduled"
      THEN [h EXCEPT ![i].status = status]
      ELSE h

\* for (const item of history) if (item.status === 'scheduled') item.status = 'canceled'
CancelAllInHistory(h) ==
  [i \in DOMAIN h |->
     IF h[i].status = "scheduled" THEN [h[i] EXCEPT !.status = "canceled"] ELSE h[i]]

\* The whole of cancelAllNotifications: the delivery service's cancel-all may
\* raise (nothing changes), otherwise nothing is pending and the history is
\* rewritten when an item changed and the write succeeds.
CancelAllNotifications(h, pend, raised, writeOk) ==
  IF raised
  THEN [history |-> h, pending |-> pend]
  ELSE [history |-> IF writeOk THEN CancelAllInHistory(h) ELSE h,
        pending |-> {}]

Scheduled(h) == {h[i].id : i \in {j \in DOMAIN h : h[j].status = "scheduled"}}

HandlesPending == {p.handle : p \in pending}

(***************************************************************************)
(* What the last step was when it was a scheduleNotificationForBlock call: *)
(* its input, what its collaborators answered, the number of requests it   *)
(* made to the scheduling primitive and the value it returned (observation *)
(* only); NoOp after every other step.                                     *)
(***************************************************************************)
NoOp ==
  [op |-> "none", block |-> 0, perm |-> FALSE,
   now1 |-> 0, now2 |-> 0, raised |-> FALSE, writeOk |-> TRUE,
   requests |-> 0, ret |-> NoHandle, branch |-> "none"]

\* The frame of scheduleNotificationsForBlocks: its input, the index of the
\* block the loop is at, notificationMap, and whether every write of the
\* history made by the call so far succeeded (observation only).
IdleBulk ==
  [pc |-> "idle", blocks |-> <<>>, i |-> 1, map |-> {}, writesOk |-> TRUE]

\* The calls of the service that run concurrently, each between two of its
\* awaits: a call occupies one of the slots of TaskIds.  kind is the function
\* called, pc the await it is at, blocks its input and i the block the loop
\* is at, first the id of the first history item it makes, handle and
\* status what it is about to log, toSave the history it is about to write
\* and map the notificationMap of scheduleNotificationsForBlocks.
TaskIds == {1, 2}

IdleTask ==
  [kind |-> "none", pc |-> "idle", blocks |-> <<>>, i |-> 1, first |-> 0,
   handle |-> NoHandle, status |-> "none", toSave |-> <<>>, map |-> {}]

\* No call is in progress (sequential execution).
NoTasks == [t \in TaskIds |-> IdleTask]

\* The learner and the schedule generator before they are given an input.
NoLearner == [pc |-> "off"]

NoSchedule == [pc |-> "off"]

\* The session store and the coach are not part of a run of the other parts.
NoStore == [pc |-> "off"]

NoCoach == [pc |-> "off"]

Init ==
  /\ history = <<>>
  /\ pending = {}
  /\ clock = 0
  /\ nextHandle = 1
  /\ made = 0
  /\ appended = <<>>
  /\ bulk = IdleBulk
  /\ last = NoOp
  /\ tasks = NoTasks
  /\ learner = NoLearner
  /\ schedule = NoSchedule
  /\ store = NoStore
  /\ coach = NoCoach

(***************************************************************************)
(* Environment: the clock advances.                                        *)
(***************************************************************************)
Tick ==
  /\ clock < MaxClock
  /\ clock' = clock + 1
  /\ last' = NoOp
  /\ UNCHANGED <<history, pending, nextHandle, made, appended, bulk, learner, schedule, store, coach, tasks>>

\* The ids of the items written to the persisted history, in order
\* (observation only).
Appended(seq, writeOk) ==
  IF writeOk THEN Append(appended, seq) ELSE appended

(***************************************************************************)
(* scheduleNotificationForBlock(block), called on its own.                 *)
(***************************************************************************)
ScheduleOne(b) ==
  /\ bulk.pc = "idle"
  /\ made < MaxItems
  /\ \E permission \in BOOLEAN, d \in {0, 1}, raised \in BOOLEAN, writeOk \in BOOLEAN :
       LET now2 == clock + d
           r == ScheduleNotificationForBlock(history, pending, nextHandle, made + 1,
                                             b, permission, clock, now2, raised, writeOk)
       IN  /\ now2 <= MaxClock
           /\ raised => r.branch = "request"
           /\ history' = r.history
           /\ pending' = r.pending
           /\ nextHandle' = r.nextHandle
           /\ clock' = now2
           /\ made' = made + 1
           /\ appended' = Appended(made + 1, writeOk)
           /\ last' = [NoOp EXCEPT !.op = "schedule", !.block = b, !.perm = permission,
                                   !.now1 = clock, !.now2 = now2, !.raised = raised,
                                   !.writeOk = writeOk, !.requests = r.requests,
                                   !.ret = r.ret, !.branch = r.branch]
  /\ UNCHANGED <<bulk, learner, schedule, store, coach, tasks>>

(***************************************************************************)
(* cancelNotification(handle)                                              *)
(***************************************************************************)
CancelNotification(handle) ==
  /\ bulk.pc = "idle"
  /\ \E raised \in BOOLEAN, writeOk \in BOOLEAN :
       LET changed == SetStatus(history, handle, "canceled")
       IN  /\ (raised \/ changed = history) => writeOk
           /\ history' = IF raised \/ ~writeOk THEN history ELSE changed
           /\ pending' = IF raised THEN pending
                         ELSE {p \in pending : p.handle # handle}
           /\ last' = NoOp
  /\ UNCHANGED <<clock, nextHandle, made, appended, bulk, learner, schedule, store, coach, tasks>>

(***************************************************************************)
(* cancelAllNotifications()                                                *)
(***************************************************************************)
CancelAll ==
  /\ bulk.pc = "idle"
  /\ \E raised \in BOOLEAN, writeOk \in BOOLEAN :
       LET r == CancelAllNotifications(history, pending, raised, writeOk)
       IN  /\ (raised \/ Scheduled(history) = {}) => writeOk
           /\ history' = r.history
           /\ pending' = r.pending
           /\ last' = NoOp
  /\ UNCHANGED <<clock, nextHandle, made, appended, bulk, learner, schedule, store, coach, tasks>>

(***************************************************************************)
(* markNotificationAsSent(handle)                                          *)
(***************************************************************************)
MarkNotificationAsSent(handle) ==
  /\ bulk.pc = "idle"
  /\ \E writeOk \in BOOLEAN :
       LET changed == SetStatus(history, handle, "sent")
       IN  /\ changed = history => writeOk
           /\ history' = IF writeOk THEN changed ELSE history
           /\ last' = NoOp
  /\ UNCHANGED <<pending, clock, nextHandle, made, appended, bulk, learner, schedule, store, coach, tasks>>

\* The delivery service fires a pending notification whose time has come; the
\* listener registered in App.tsx calls markNotificationAsSent with its handle.
Deliver(p) ==
  /\ bulk.pc = "idle"
  /\ p \in pending
  /\ BlockStart(p.block) <= clock
  /\ pending' = pending \ {p}
  /\ \E writeOk \in BOOLEAN :
       LET changed == SetStatus(history, p.handle, "sent")
       IN  /\ changed = history => writeOk
           /\ history' = IF writeOk THEN changed ELSE history
           /\ last' = NoOp
  /\ UNCHANGED <<clock, nextHandle, made, appended, bulk, learner, schedule, store, coach, tasks>>

(***************************************************************************)
(* scheduleNotificationsForBlocks(blocks): cancelAllNotifications, then    *)
(* scheduleNotificationForBlock for each block in order, then return the   *)
(* map.  Each await is a step; under Spec no other operation of the        *)
(* service runs in between (sequential execution).                         *)
(***************************************************************************)
RECURSIVE SeqsUpTo(_, _)
SeqsUpTo(S, n) ==
  IF n = 0 THEN {<<>>}
  ELSE LET shorter == SeqsUpTo(S, n - 1)
       IN  shorter \cup {Append(q, x) : q \in {t \in shorter : Len(t) = n - 1}, x \in S}

Batches == SeqsUpTo(BlockIds, MaxBatch)

BulkStart(blocks) ==
  /\ bulk.pc = "idle"
  /\ made + Len(blocks) <= MaxItems
  /\ \E raised \in BOOLEAN, writeOk \in BOOLEAN :
       LET r == CancelAllNotifications(history, pending, raised, writeOk)
       IN  /\ (raised \/ Scheduled(history) = {}) => writeOk
           /\ history' = r.history
           /\ pending' = r.pending
           /\ bulk' = [pc |-> "loop", blocks |-> blocks, i |-> 1, map |-> {},
                       writesOk |-> writeOk]
           /\ last' = NoOp
  /\ UNCHANGED <<clock, nextHandle, made, appended, learner, schedule, store, coach, tasks>>

\* if (notificationId) notificationMap.set(block.id, notificationId)
MapSet(map, b, ret) ==
  IF ret # NoHandle THEN {e \in map : e[1] # b} \cup {<<b, ret>>} ELSE map

\* The loop goes on to the next block whatever the block's outcome.
NextIndexStopsOnFailure(i, n, ret) == IF ret = NoHandle THEN n + 1 ELSE i + 1

NextIndex(i, n, ret) == i + 1

BulkStep ==
  /\ bulk.pc = "loop"
  /\ bulk.i <= Len(bulk.blocks)
  /\ \E permission \in BOOLEAN, d \in {0, 1}, raised \in BOOLEAN, writeOk \in BOOLEAN :
       LET b == bulk.blocks[bulk.i]
           now2 == clock + d
           r == ScheduleNotificationForBlock(history, pending, nextHandle, made + 1,
                                             b, permission, clock, now2, raised, writeOk)
       IN  /\ now2 <= MaxClock
           /\ raised => r.branch = "request"
           /\ history' = r.history
           /\ pending' = r.pending
           /\ nextHandle' = r.nextHandle
           /\ clock' = now2
           /\ made' = made + 1
           /\ appended' = Appended(made + 1, writeOk)
           /\ bulk' = [bulk EXCEPT !.i = NextIndex(bulk.i, Len(bulk.blocks), r.ret),
                                   !.map = MapSet(bulk.map, b, r.ret),
                                   !.writesOk = bulk.writesOk /\ writeOk]
           /\ last' = [NoOp EXCEPT !.op = "schedule", !.block = b, !.perm = permission,
                                   !.now1 = clock, !.now2 = now2, !.raised = raised,
                                   !.writeOk = writeOk, !.requests = r.requests,
                                   !.ret = r.ret, !.branch = r.branch]
  /\ UNCHANGED <<coreVars, tasks>>

BulkReturn ==
  /\ bulk.pc = "loop"
  /\ bulk.i > Len(bulk.blocks)
  /\ bulk' = IdleBulk
  /\ last' = NoOp
  /\ UNCHANGED <<history, pending, clock, nextHandle, made, appended, learner, schedule, store, coach, tasks>>

Next ==
  \/ Tick
  \/ \E b \in BlockIds : ScheduleOne(b)
  \/ \E h \in 1..(nextHandle - 1) : CancelNotification(h)
  \/ CancelAll
  \/ \E h \in 1..(nextHandle - 1) : MarkNotificationAsSent(h)
  \/ \E p \in pending : Deliver(p)
  \/ \E blocks \in Batches : BulkStart(blocks)
  \/ BulkStep
  \/ BulkReturn

Spec == Init /\ [][Next]_vars

(***************************************************************************)
(* SpecCap: the same service, started from a history one item below the    *)
(* cap, as left by HistoryCap - 1 calls of scheduleNotificationForBlock    *)
(* for block 1 without permission (each logged 'canceled').  The clock     *)
(* advances only inside the calls.                                         *)
(***************************************************************************)
PrefillLen == HistoryCap - 1

PrefillId(i) == i - PrefillLen

InitCap ==
  /\ history = [i \in 1..PrefillLen |-> HistoryItem(PrefillId(i), 1, NoHandle, "canceled")]
  /\ pending = {}
  /\ clock = 0
  /\ nextHandle = 1
  /\ made = 0
  /\ appended = [i \in 1..PrefillLen |-> PrefillId(i)]
  /\ bulk = IdleBulk
  /\ last = NoOp
  /\ tasks = NoTasks
  /\ learner = NoLearner
  /\ schedule = NoSchedule
  /\ store = NoStore
  /\ coach = NoCoach

NextCap ==
  \/ \E b \in BlockIds : ScheduleOne(b)
  \/ \E h \in 1..(nextHandle - 1) : CancelNotification(h)
  \/ CancelAll
  \/ \E h \in 1..(nextHandle - 1) : MarkNotificationAsSent(h)
  \/ \E p \in pending : Deliver(p)
  \/ \E blocks \in Batches : BulkStart(blocks)
  \/ BulkStep
  \/ BulkReturn

SpecCap == InitCap /\ [][NextCap]_vars

(***************************************************************************)
(* Claims about the notification service.                                  *)
(***************************************************************************)
LastStart == BlockStart(last'.block)

\* The item saveNotificationToHistory builds in the step, given its status
\* and handle.
NewItem(status, handle) == HistoryItem(made + 1, last'.block, handle, status)

IsScheduleStep == last'.op = "schedule"

C3_StatusTransitions ==
  [][ \A i \in DOMAIN history : \A j \in DOMAIN history' :
        history'[j].id = history[i].id =>
          \/ history'[j] = history[i]
          \/ /\ history[i].status = "scheduled"
             /\ history'[j] = [history[i] EXCEPT !.status = "sent"]
             /\ \/ MarkNotificationAsSent(history[i].notificationId)
                \/ \E p \in pending : p.handle = history[i].notificationId /\ Deliver(p)
          \/ /\ history[i].status = "scheduled"
             /\ history'[j] = [history[i] EXCEPT !.status = "canceled"]
             /\ \/ CancelNotification(history[i].notificationId)
                \/ CancelAll
                \/ \E blocks \in Batches : BulkStart(blocks) ]_vars

\* C3 witness: one item went from 'scheduled' to 'sent' and another from
\* 'scheduled' to 'canceled' (both carry the handle they were scheduled with).
C3_Witness ==
  /\ \E i \in DOMAIN history :
       history[i].status = "sent" /\ history[i].notificationId # NoHandle
  /\ \E i \in DOMAIN history :
       history[i].status = "canceled" /\ history[i].notificationId # NoHandle

\* C4 (as stated): in every execution of scheduleNotificationsForBlocks, when
\* the cancel phase is over and before the first scheduling request, every
\* item that was 'scheduled' at the start of the call is 'canceled' and its
\* notification is no longer pending in the delivery service.
C4_CancelPrecedesReschedule ==
  [][ (bulk.pc = "idle" /\ bulk'.pc = "loop") =>
        \A i \in DOMAIN history :
          history[i].status = "scheduled" =>
            /\ history'[i].status = "canceled"
            /\ history[i].notificationId \notin {p.handle : p \in pending'} ]_vars

\* The items the call of scheduleNotificationsForBlocks appended, when the
\* loop is over (the last Len(blocks) items of the history).
BulkNewItems ==
  SubSeq(history, Len(history) - Len(bulk.blocks) + 1, Len(history))

BulkDone == bulk.pc = "loop" /\ bulk.i > Len(bulk.blocks)

\* C5: scheduleNotificationsForBlocks processes every block of its input in
\* order whatever happens to a block: provided the writes of the history
\* succeed, when the loop is over each input block has exactly one new
\* history item, and the map to return holds exactly the ids of the blocks
\* logged 'scheduled', each with the handle of its (last) item.
C5_EveryBlockProcessed ==
  (BulkDone /\ bulk.writesOk) =>
    LET n == Len(bulk.blocks)
        new == BulkNewItems
        sched == {k \in 1..n : new[k].status = "scheduled"}
    IN  /\ Len(history) >= n
        /\ \A k \in 1..n :
             /\ new[k].scheduleBlockId = bulk.blocks[k]
             /\ new[k].id = made - n + k
             /\ new[k].status = "scheduled" <=> new[k].notificationId # NoHandle
        /\ {e[1] : e \in bulk.map} = {new[k].scheduleBlockId : k \in sched}
        /\ \A e \in bulk.map :
             \E k \in sched :
               /\ new[k].scheduleBlockId = e[1]
               /\ new[k].notificationId = e[2]
               /\ \A m \in sched : new[m].scheduleBlockId = e[1] => m <= k

\* C5 witness: a batch of two blocks whose first block was logged 'canceled'
\* and whose second block was then scheduled and is in the map.
C5_Witness ==
  /\ BulkDone /\ bulk.writesOk
  /\ Len(bulk.blocks) = 2
  /\ BulkNewItems[1].status = "canceled"
  /\ BulkNewItems[2].status = "scheduled"
  /\ <<bulk.blocks[2], BulkNewItems[2].notificationId>> \in bulk.map

MinutesPerDay == 1440

MinutesPerMonth == 30 * MinutesPerDay

Centi == 100

Unit == 1000

EwmaAlphaTenths == 3

MinSessionsForLearning == 3

MaxSessionAgeDays == 30

RecentDays == 14

ConfidenceMinSessions == 5

RecencyTenths == 4

ConsistencyTenths == 3

SessionCountTenths == 3

MinWakeWindowMin == 15

MaxWakeWindowMin == 480

MaxNapDurationMin == 240

DaytimeFromHour == 6

DaytimeToHour == 20

At(day, hour, minute) == day * MinutesPerDay + hour * 60 + minute

\* dayjs hour() of an instant at or after day 0.
HourOf(t) == (t % MinutesPerDay) \div 60

\* a.diff(b, 'day'): whole days, truncated toward zero.
DiffDays(a, b) ==
  IF a >= b THEN (a - b) \div MinutesPerDay ELSE 0 - ((b - a) \div MinutesPerDay)

\* time.durationMinutes(startISO, endISO)
DurationMinutes(start, end) == end - start

Min2(a, b) == IF a <= b THEN a ELSE b

Max2(a, b) == IF a >= b THEN a ELSE b

RECURSIVE SumSeq(_)
SumSeq(q) == IF q = <<>> THEN 0 ELSE Head(q) + SumSeq(Tail(q))

\* Math.sqrt on a natural number, truncated.
RECURSIVE SqrtBetween(_, _, _)
SqrtBetween(n, lo, hi) ==
  IF lo >= hi THEN lo
  ELSE LET mid == (lo + hi + 1) \div 2
       IN  IF mid * mid <= n THEN SqrtBetween(n, mid, hi)
           ELSE SqrtBetween(n, lo, mid - 1)

Sqrt(n) == SqrtBetween(n, 0, 46340)

(***************************************************************************)
(* AGE_BASELINE_TABLE and the functions of ageBaseline.ts.                 *)
(***************************************************************************)
AgeRanges == {"0-3m", "4-6m", "7-9m", "10-12m", "13-18m", "19m+"}

Baseline(tw, wlo, whi, tn, nlo, nhi) ==
  [typicalWakeWindowMin |-> tw, minWakeWindowMin |-> wlo, maxWakeWindowMin |-> whi,
   typicalNapLengthMin |-> tn, minNapLengthMin |-> nlo, maxNapLengthMin |-> nhi]

AgeBaselineTable ==
  [r \in AgeRanges |->
     CASE r = "0-3m"   -> Baseline(60, 45, 90, 60, 30, 120)
       [] r = "4-6m"   -> Baseline(120, 90, 150, 90, 60, 120)
       [] r = "7-9m"   -> Baseline(150, 120, 180, 90, 60, 120)
       [] r = "10-12m" -> Baseline(180, 150, 210, 90, 60, 120)
       [] r = "13-18m" -> Baseline(210, 180, 240, 120, 90, 150)
       [] r = "19m+"   -> Baseline(300, 240, 360, 120, 60, 180)]

\* calculateAgeMonths(birthDateISO, referenceDateISO): throws when the birth
\* date is after the reference date; the age is kept in minutes.
CalculateAgeMonths(birth, ref) ==
  [threw |-> birth > ref, age |-> Max2(0, ref - birth)]

GetAgeRange(age) ==
  IF age < 4 * MinutesPerMonth THEN "0-3m"
  ELSE IF age < 7 * MinutesPerMonth THEN "4-6m"
  ELSE IF age < 10 * MinutesPerMonth THEN "7-9m"
  ELSE IF age < 13 * MinutesPerMonth THEN "10-12m"
  ELSE IF age < 19 * MinutesPerMonth THEN "13-18m"
  ELSE "19m+"

GetBaselineForAge(age) == AgeBaselineTable[GetAgeRange(age)]

\* getBaselineForBaby(birthDateISO) of a birth date not after the clock.
GetBaselineForBaby(birth, now) == GetBaselineForAge(CalculateAgeMonths(birth, now).age)

\* A clamp of the wake window that lacks the ceiling.
ClampWakeWindowNoCeiling(x, age) ==
  LET baseline == GetBaselineForAge(age)
  IN  Max2(baseline.minWakeWindowMin * Centi, x)

\* clampWakeWindow and clampNapLength, on hundredths of a minute.
ClampWakeWindow(x, age) ==
  LET baseline == GetBaselineForAge(age)
  IN  Max2(baseline.minWakeWindowMin * Centi, Min2(baseline.maxWakeWindowMin * Centi, x))

ClampNapLength(x, age) ==
  LET baseline == GetBaselineForAge(age)
  IN  Max2(baseline.minNapLengthMin * Centi, Min2(baseline.maxNapLengthMin * Centi, x))

(***************************************************************************)
(* The sessions a list may hold: a session is a row [startT, endT] of      *)
(* SessionTable, named by its index, and rows have distinct starts.  The   *)
(* clock reads the same instant, one of Clocks, whenever the learner reads *)
(* it: at the earlier one the sessions of days 49 to 51 are in the future. *)
(***************************************************************************)
Clocks == {At(48, 0, 0), At(50, 16, 0)}

SessionTable ==
  << [startT |-> At(49, 20, 0),  endT |-> At(50, 5, 30)],
     [startT |-> At(50, 7, 0),   endT |-> At(50, 8, 0)],
     [startT |-> At(50, 10, 0),  endT |-> At(50, 11, 30)],
     [startT |-> At(50, 14, 0),  endT |-> At(50, 14, 45)],
     [startT |-> At(30, 9, 0),   endT |-> At(30, 10, 0)],
     [startT |-> At(10, 9, 0),   endT |-> At(10, 9, 40)],
     [startT |-> At(10, 10, 10), endT |-> At(10, 11, 0)],
     [startT |-> At(9, 13, 0),   endT |-> At(9, 14, 0)],
     [startT |-> At(51, 9, 0),   endT |-> At(51, 10, 0)] >>

SessionIds == DOMAIN SessionTable

\* babyProfile.birthDateISO: 15 months, 5 months and one month before the
\* clock (the last is after the sessions of days 9 and 10), and after it.
BirthDates == {At(0 - 400, 0, 0), At(0 - 100, 0, 0), At(20, 0, 0), At(60, 0, 0)}

\* Math.exp(-daysAgo / 10) in thousandths, for daysAgo = 0..30 and, for an
\* instant in the future, daysAgo = -1..-4.
ExpDecay ==
  << 1000, 905, 819, 741, 670, 607, 549, 497, 449, 407, 368,
     333, 301, 273, 247, 223, 202, 183, 165, 150, 135,
     122, 111, 100, 91, 82, 74, 67, 61, 55, 50 >>

ExpGrowth == << 1105, 1221, 1350, 1492 >>

\* [...sessions].sort by start: the ids of S in order of start.
RECURSIVE SortByStart(_)
SortByStart(S) ==
  IF S = {} THEN <<>>
  ELSE LET first == CHOOSE x \in S : \A y \in S : SessionTable[x].startT <= SessionTable[y].startT
       IN  <<first>> \o SortByStart(S \ {first})

\* extractWakeWindows: the gaps of 15 to 480 minutes between a session's end
\* and the start of the next session in order of start; the age of the baby
\* at the end of each kept gap is computed, which throws for a birth date
\* after it.
ExtractWakeWindows(S, birth) ==
  LET q == SortByStart(S)
      gaps == [i \in 1..(Len(q) - 1) |->
                 [durationMin |-> DurationMinutes(SessionTable[q[i]].endT,
                                                  SessionTable[q[i + 1]].startT),
                  at |-> SessionTable[q[i + 1]].startT]]
      kept == SelectSeq(gaps, LAMBDA g : g.durationMin >= MinWakeWindowMin
                                          /\ g.durationMin <= MaxWakeWindowMin)
  IN  [threw |-> \E i \in DOMAIN kept : CalculateAgeMonths(birth, kept[i].at).threw,
       items |-> kept]

\* extractNaps: the sessions shorter than 240 minutes that start at an hour
\* from 6 to 19.
ExtractNaps(S, birth) ==
  LET q == SortByStart(S)
      all == [i \in 1..Len(q) |->
                [durationMin |-> DurationMinutes(SessionTable[q[i]].startT,
                                                 SessionTable[q[i]].endT),
                 at |-> SessionTable[q[i]].startT]]
      kept == SelectSeq(all, LAMBDA n : /\ n.durationMin < MaxNapDurationMin
                                        /\ HourOf(n.at) >= DaytimeFromHour
                                        /\ HourOf(n.at) < DaytimeToHour)
  IN  [threw |-> \E i \in DOMAIN kept : CalculateAgeMonths(birth, kept[i].at).threw,
       items |-> kept]

\* calculateRecencyWeight, in thousandths.
CalculateRecencyWeight(t, now) ==
  LET daysAgo == DiffDays(now, t)
  IN  IF daysAgo > MaxSessionAgeDays THEN 0
      ELSE IF daysAgo >= 0 THEN ExpDecay[daysAgo + 1]
      ELSE ExpGrowth[Min2(0 - daysAgo, Len(ExpGrowth))]

\* calculateEWMA(values, previousEWMA, weights) as updateLearner calls it,
\* with a previous value that is a number: values in minutes, weights in
\* thousandths, the previous value and the result in hundredths of a minute.
CalculateEWMA(values, previousEWMA, weights) ==
  IF Len(values) = 0 THEN previousEWMA
  ELSE IF Len(values) = 1
    THEN (EwmaAlphaTenths * values[1] * Centi + (10 - EwmaAlphaTenths) * previousEWMA) \div 10
  ELSE LET weightedSum == SumSeq([i \in DOMAIN values |-> values[i] * weights[i]])
           totalWeight == SumSeq(weights)
       IN  IF totalWeight = 0 THEN previousEWMA
           ELSE LET average == (weightedSum * Centi) \div totalWeight
                IN  (EwmaAlphaTenths * average + (10 - EwmaAlphaTenths) * previousEWMA) \div 10

\* stdDev / mean of the durations, in thousandths:
\* sqrt(n * sum(d^2) - sum(d)^2) / sum(d).
CoefficientOfVariation(durations) ==
  LET n == Len(durations)
      total == SumSeq(durations)
      squares == SumSeq([i \in DOMAIN durations |-> durations[i] * durations[i]])
  IN  IF total > 0 THEN (Sqrt((n * squares - total * total) * 100) * 100) \div total
      ELSE Unit

\* The little-data test with its threshold one too low.
LittleDataOffByOne(totalSessions) == totalSessions < MinSessionsForLearning - 1

\* if (totalSessions < MIN_SESSIONS_FOR_LEARNING) return 0.1
LittleData(totalSessions) == totalSessions < MinSessionsForLearning

\* calculateConfidence, in thousandths.
CalculateConfidence(wakeWindows, naps, now) ==
  LET totalSessions == Len(wakeWindows) + Len(naps)
      recencyWeights ==
        [i \in DOMAIN wakeWindows |-> CalculateRecencyWeight(wakeWindows[i].at, now)]
        \o [i \in DOMAIN naps |-> CalculateRecencyWeight(naps[i].at, now)]
      avgRecency == SumSeq(recencyWeights) \div Len(recencyWeights)
      durations == [i \in DOMAIN wakeWindows |-> wakeWindows[i].durationMin]
      consistencyScore ==
        IF Len(wakeWindows) >= 3 THEN Max2(0, Unit - CoefficientOfVariation(durations))
        ELSE Unit \div 2
      sessionCountScore == Min2(Unit, (totalSessions * Unit) \div ConfidenceMinSessions)
      confidence == (RecencyTenths * avgRecency + ConsistencyTenths * consistencyScore
                       + SessionCountTenths * sessionCountScore) \div 10
  IN  IF LittleData(totalSessions) THEN Unit \div 10
      ELSE Min2(Unit, Max2(Unit \div 10, confidence))

\* A LearnerState, and null.
LearnerState(wakeWindow, napLength, confidence) ==
  [present |-> TRUE, ewmaWakeWindowMin |-> wakeWindow, ewmaNapLengthMin |-> napLength,
   confidence |-> confidence]

NullState ==
  [present |-> FALSE, ewmaWakeWindowMin |-> 0, ewmaNapLengthMin |-> 0, confidence |-> 0]

\* The recent items (at most 14 days old) when there are any, else all.
RecentOrAll(items, now) ==
  LET recent == SelectSeq(items, LAMBDA w : DiffDays(now, w.at) <= RecentDays)
  IN  IF Len(recent) > 0 THEN recent ELSE items

\* The EWMA of the items blended with the previous value (or the baseline's).
LearnedValue(items, previous, now) ==
  LET used == RecentOrAll(items, now)
  IN  CalculateEWMA([i \in DOMAIN used |-> used[i].durationMin], previous,
                    [i \in DOMAIN used |-> CalculateRecencyWeight(used[i].at, now)])

\* updateLearner(sessions, babyProfile, previousState) on the sessions that
\* are not deleted: [threw, state].
UpdateLearner(active, birth, previousState, now) ==
  LET age == CalculateAgeMonths(birth, now)
      baseline == GetBaselineForAge(age.age)
      wakeWindows == ExtractWakeWindows(active, birth)
      naps == ExtractNaps(active, birth)
      previousWakeWindow == IF previousState.present THEN previousState.ewmaWakeWindowMin
                            ELSE baseline.typicalWakeWindowMin * Centi
      previousNapLength == IF previousState.present THEN previousState.ewmaNapLengthMin
                           ELSE baseline.typicalNapLengthMin * Centi
      ewmaWakeWindow ==
        IF Len(wakeWindows.items) = 0 THEN baseline.typicalWakeWindowMin * Centi
        ELSE ClampWakeWindow(LearnedValue(wakeWindows.items, previousWakeWindow, now), age.age)
      ewmaNapLength ==
        IF Len(naps.items) = 0 THEN baseline.typicalNapLengthMin * Centi
        ELSE ClampNapLength(LearnedValue(naps.items, previousNapLength, now), age.age)
  IN  IF Cardinality(active) < MinSessionsForLearning
        THEN IF age.threw THEN [threw |-> TRUE, state |-> NullState]
             ELSE [threw |-> FALSE,
                   state |-> LearnerState(baseline.typicalWakeWindowMin * Centi,
                                          baseline.typicalNapLengthMin * Centi, Unit \div 10)]
      ELSE IF wakeWindows.threw \/ naps.threw \/ age.threw
        THEN [threw |-> TRUE, state |-> NullState]
      ELSE [threw |-> FALSE,
            state |-> LearnerState(ewmaWakeWindow, ewmaNapLength,
                                   CalculateConfidence(wakeWindows.items, naps.items, now))]

\* The wake-window accessor falling back to the bucket's minimum.
GetLearnedWakeWindowFallsBackToMin(learnerState, birth, now) ==
  IF learnerState.present /\ learnerState.confidence > Unit \div 5
    THEN [threw |-> FALSE, branch |-> "learned", value |-> learnerState.ewmaWakeWindowMin]
  ELSE IF CalculateAgeMonths(birth, now).threw
    THEN [threw |-> TRUE, branch |-> "baseline", value |-> 0]
  ELSE [threw |-> FALSE, branch |-> "baseline",
        value |-> GetBaselineForBaby(birth, now).minWakeWindowMin * Centi]

\* getLearnedWakeWindow(learnerState, babyProfile): [threw, branch, value].
GetLearnedWakeWindow(learnerState, birth, now) ==
  IF learnerState.present /\ learnerState.confidence > Unit \div 5
    THEN [threw |-> FALSE, branch |-> "learned", value |-> learnerState.ewmaWakeWindowMin]
  ELSE IF CalculateAgeMonths(birth, now).threw
    THEN [threw |-> TRUE, branch |-> "baseline", value |-> 0]
  ELSE [threw |-> FALSE, branch |-> "baseline",
        value |-> GetBaselineForBaby(birth, now).typicalWakeWindowMin * Centi]

\* The nap accessor with the learned branch taken from 0.2 on.
GetLearnedNapLengthFromPointTwo(learnerState, birth, now) ==
  IF learnerState.present /\ learnerState.confidence >= Unit \div 5
    THEN [threw |-> FALSE, branch |-> "learned", value |-> learnerState.ewmaNapLengthMin]
  ELSE IF CalculateAgeMonths(birth, now).threw
    THEN [threw |-> TRUE, branch |-> "baseline", value |-> 0]
  ELSE [threw |-> FALSE, branch |-> "baseline",
        value |-> GetBaselineForBaby(birth, now).typicalNapLengthMin * Centi]

\* getLearnedNapLength(learnerState, babyProfile): [threw, branch, value].
GetLearnedNapLength(learnerState, birth, now) ==
  IF learnerState.present /\ learnerState.confidence > Unit \div 5
    THEN [threw |-> FALSE, branch |-> "learned", value |-> learnerState.ewmaNapLengthMin]
  ELSE IF CalculateAgeMonths(birth, now).threw
    THEN [threw |-> TRUE, branch |-> "baseline", value |-> 0]
  ELSE [threw |-> FALSE, branch |-> "baseline",
        value |-> GetBaselineForBaby(birth, now).typicalNapLengthMin * Centi]

(***************************************************************************)
(* SpecLearner: a session list (its sessions that are not deleted and its  *)
(* deleted ones), a profile and a stored learner state are given; the      *)
(* learner store runs updateLearner on them with the stored state as the   *)
(* previous state and stores the result, and the accessors are read.       *)
(***************************************************************************)
MaxSessions == 4

MaxRuns == 2

\* Stored states a run may start from: none, one in range, and one whose
\* values are outside every age bucket and whose confidence is exactly 0.2.
StoredStates ==
  {NullState, LearnerState(150 * Centi, 90 * Centi, Unit \div 2),
   LearnerState(1000 * Centi, 5 * Centi, Unit \div 5)}

\* The session lists: at most MaxSessions sessions, at most one deleted.
SessionLists ==
  {l \in [active : SUBSET SessionIds, deleted : SUBSET SessionIds] :
     /\ l.active \cap l.deleted = {}
     /\ Cardinality(l.deleted) <= 1
     /\ Cardinality(l.active) + Cardinality(l.deleted) <= MaxSessions}

NotRead == [read |-> FALSE]

InitLearner ==
  /\ history = <<>>
  /\ pending = {}
  /\ clock = 0
  /\ nextHandle = 1
  /\ made = 0
  /\ appended = <<>>
  /\ bulk = IdleBulk
  /\ last = NoOp
  /\ tasks = NoTasks
  /\ schedule = NoSchedule
  /\ store = NoStore
  /\ coach = NoCoach
  /\ \E l \in SessionLists, birth \in BirthDates, stored \in StoredStates, now \in Clocks :
       learner = [pc |-> "ready", active |-> l.active, deleted |-> l.deleted,
                  birth |-> birth, now |-> now, previous |-> NullState, state |-> stored,
                  runs |-> 0, got |-> NotRead]

notifVars == <<history, pending, clock, nextHandle, made, appended, bulk, last, tasks>>

\* learnerStore.updateLearnerState: the result replaces the stored state; a
\* throw leaves it and is recorded.
UpdateLearnerState ==
  /\ learner.pc \in {"ready", "threw"}
  /\ learner.runs < MaxRuns
  /\ LET r == UpdateLearner(learner.active, learner.birth, learner.state, learner.now)
     IN  learner' = [learner EXCEPT !.pc = IF r.threw THEN "threw" ELSE "ready",
                                    !.previous = learner.state,
                                    !.state = IF r.threw THEN learner.state ELSE r.state,
                                    !.runs = learner.runs + 1,
                                    !.got = NotRead]
  /\ UNCHANGED <<notifVars, schedule, store, coach>>

\* A reader calls both accessors on the stored state.
ReadLearned ==
  /\ learner.pc \in {"ready", "threw"}
  /\ learner.got = NotRead
  /\ learner' = [learner EXCEPT !.got =
                   [read |-> TRUE,
                    wakeWindow |-> GetLearnedWakeWindow(learner.state, learner.birth, learner.now),
                    napLength |-> GetLearnedNapLength(learner.state, learner.birth, learner.now)]]
  /\ UNCHANGED <<notifVars, schedule, store, coach>>

NextLearner ==
  \/ UpdateLearnerState
  \/ ReadLearned

SpecLearner == InitLearner /\ [][NextLearner]_vars

(***************************************************************************)
(* Claims about the pattern learner.                                       *)
(***************************************************************************)
\* updateLearner returned at the last run of the store.
Returned == learner.pc = "ready" /\ learner.runs > 0

\* The number of wake windows plus naps extracted from the active sessions.
Extracted ==
  Len(ExtractWakeWindows(learner.active, learner.birth).items)
    + Len(ExtractNaps(learner.active, learner.birth).items)

\* C7: whenever updateLearner returns, the confidence of the state it returns
\* is at least 0.1 and at most 1.0, and it is exactly 0.1 when fewer than 3
\* sessions are active or fewer than 3 wake windows plus naps are extracted.
C7_ConfidenceRange ==
  Returned =>
    /\ learner.state.confidence >= Unit \div 10
    /\ learner.state.confidence <= Unit
    /\ (Cardinality(learner.active) < 3 \/ Extracted < 3)
         => learner.state.confidence = Unit \div 10

\* updateLearner returned on at least 3 active sessions that yield exactly 2
\* wake windows plus naps, with confidence 0.1.
C7_Witness ==
  /\ Returned
  /\ Cardinality(learner.active) >= 3
  /\ Extracted = 2
  /\ learner.state.confidence = Unit \div 10

\* C8: whenever updateLearner returns, the wake window and the nap length of
\* the state it returns lie within the minimum and the maximum of the age
\* bucket of the baby's current age, whatever the previous state held.
C8_LearnedValuesWithinAgeBounds ==
  Returned =>
    LET baseline == GetBaselineForBaby(learner.birth, learner.now)
    IN  /\ learner.state.ewmaWakeWindowMin >= baseline.minWakeWindowMin * Centi
        /\ learner.state.ewmaWakeWindowMin <= baseline.maxWakeWindowMin * Centi
        /\ learner.state.ewmaNapLengthMin >= baseline.minNapLengthMin * Centi
        /\ learner.state.ewmaNapLengthMin <= baseline.maxNapLengthMin * Centi

\* updateLearner returned on a previous state whose values are outside the
\* bucket, on naps that are all older than 30 days (every weight is zero) and
\* a wake window: the nap length is the bucket's minimum and the wake window
\* is the bucket's maximum.
C8_Witness ==
  /\ Returned
  /\ learner.previous = LearnerState(1000 * Centi, 5 * Centi, Unit \div 5)
  /\ learner.active = {6, 7, 8}
  /\ learner.state.ewmaNapLengthMin
       = GetBaselineForBaby(learner.birth, learner.now).minNapLengthMin * Centi
  /\ learner.state.ewmaWakeWindowMin
       = GetBaselineForBaby(learner.birth, learner.now).maxWakeWindowMin * Centi

WindDownDurationMin == 30

MaxNapsPerDay == 3

BedtimeEarliest == 18

BedtimeLatest == 21

WhatIfAdjustmentRange == 30

NapCutoffHour == 18

NightSleepHours == 10

MinWhatIfWakeWindow == 30

DefaultDayStartHour == 7

\* startOf('day') and endOf('day') of an instant, and the minute of its hour.
StartOfDay(t) == t - (t % MinutesPerDay)

EndOfDay(t) == StartOfDay(t) + MinutesPerDay - 1

MinuteOf(t) == t % 60

\* time.dayKey: the day number of an instant.
DayKey(t) == t \div MinutesPerDay

\* generateRationale(kind, learnerState, wakeWindowMin, napLengthMin, isWhatIf)
GenerateRationale(kind, learnerState, wakeWindowMin, napLengthMin, isWhatIf) ==
  LET confidence == IF learnerState.present THEN learnerState.confidence ELSE 0
      confidenceLevel == IF confidence > 700 THEN "high"
                         ELSE IF confidence > 400 THEN "moderate" ELSE "low"
      learned == learnerState.present /\ confidence > Unit \div 5
  IN  IF isWhatIf
        THEN [form |-> "whatIf", level |-> "", wakeWindowMin |-> wakeWindowMin,
              napLengthMin |-> 0]
      ELSE IF kind = "nap"
        THEN [form |-> IF learned THEN "learned" ELSE "baseline",
              level |-> IF learned THEN confidenceLevel ELSE "",
              wakeWindowMin |-> wakeWindowMin, napLengthMin |-> napLengthMin]
      ELSE IF kind = "bedtime"
        THEN [form |-> IF learned THEN "learnedBedtime" ELSE "baselineBedtime",
              level |-> IF learned THEN confidenceLevel ELSE "",
              wakeWindowMin |-> 0, napLengthMin |-> 0]
      ELSE [form |-> "windDown", level |-> "", wakeWindowMin |-> 0, napLengthMin |-> 0]

\* The text of a rationale up to the numbers in it.
RationaleText(rationale) ==
  CASE rationale.form = "whatIf" -> "What-if scenario"
    [] rationale.form = "learned" -> "Based on learned pattern"
    [] rationale.form = "baseline" -> "Based on age baseline"
    [] rationale.form = "learnedBedtime" -> "Learned bedtime pattern"
    [] rationale.form = "baselineBedtime" -> "Age-appropriate bedtime window"
    [] rationale.form = "windDown" -> "Start wind-down 30 minutes before sleep"

\* generateBlockId(kind, startISO)
GenerateBlockId(kind, startT) == <<kind, startT>>

\* learnerState?.confidence ?? 0.3
BaseConfidence(learnerState) ==
  IF learnerState.present THEN learnerState.confidence ELSE (3 * Unit) \div 10

\* calculateBlockConfidence: 5% less per hour ahead of the reference time, at
\* most 50% less, and at least 0.1.
CalculateBlockConfidence(learnerState, blockStart, referenceTime) ==
  LET minutesAhead == blockStart - referenceTime
      timeDecay == Min2(Unit \div 2, (minutesAhead * 50) \div 60)
  IN  Max2(Unit \div 10, (BaseConfidence(learnerState) * (Unit - timeDecay)) \div Unit)

Block(kind, startT, endT, confidence, rationale) ==
  [id |-> GenerateBlockId(kind, startT), kind |-> kind, startT |-> startT, endT |-> endT,
   confidence |-> confidence, rationale |-> rationale]

\* A nap cut-off that lets a nap start during the hour of 18.
NapTooLateAfterCutoffHour(napStart) == HourOf(napStart) > NapCutoffHour

\* if (napStart.hour() >= 18) break
NapTooLate(napStart) == HourOf(napStart) >= NapCutoffHour

\* generateNaps: the loop from its iteration with `left` iterations to go.
RECURSIVE NapsFrom(_, _, _, _, _, _)
NapsFrom(currentTime, wakeWindowMin, napLengthMin, learnerState, referenceTime, left) ==
  LET napStart == currentTime + wakeWindowMin
      napEnd == napStart + napLengthMin
  IN  IF left = 0 \/ NapTooLate(napStart) \/ napStart > EndOfDay(referenceTime) THEN <<>>
      ELSE << Block("nap", napStart, napEnd,
                    CalculateBlockConfidence(learnerState, napStart, referenceTime),
                    GenerateRationale("nap", learnerState, wakeWindowMin, napLengthMin, FALSE)) >>
           \o NapsFrom(napEnd, wakeWindowMin, napLengthMin, learnerState, referenceTime,
                       left - 1)

GenerateNaps(startFrom, wakeWindowMin, napLengthMin, learnerState, referenceTime, maxNaps) ==
  NapsFrom(startFrom, wakeWindowMin, napLengthMin, learnerState, referenceTime, maxNaps)

\* Math.round(minutes / 15) * 15
RoundToQuarter(minutes) == ((2 * minutes + 15) \div 30) * 15

\* The instant generateBedtime settles on: the last wake plus the wake window,
\* moved to 18:00 or 21:00 of its day when its hour is outside 18..21, else
\* with its minutes rounded to the nearest quarter.
BedtimeInstant(lastWakeTime, wakeWindowMin) ==
  LET bedtime == lastWakeTime + wakeWindowMin
  IN  IF HourOf(bedtime) < BedtimeEarliest THEN StartOfDay(bedtime) + BedtimeEarliest * 60
      ELSE IF HourOf(bedtime) > BedtimeLatest THEN StartOfDay(bedtime) + BedtimeLatest * 60
      ELSE bedtime - MinuteOf(bedtime) + RoundToQuarter(MinuteOf(bedtime))

GenerateBedtime(lastWakeTime, wakeWindowMin, learnerState, referenceTime) ==
  LET bedtime == BedtimeInstant(lastWakeTime, wakeWindowMin)
  IN  Block("bedtime", bedtime, bedtime + NightSleepHours * 60,
            CalculateBlockConfidence(learnerState, bedtime, referenceTime),
            GenerateRationale("bedtime", learnerState, wakeWindowMin, 0, FALSE))

\* generateWindDown(bedtimeISO, learnerState)
GenerateWindDown(bedtime, learnerState) ==
  Block("windDown", bedtime - WindDownDurationMin, bedtime, BaseConfidence(learnerState),
        GenerateRationale("windDown", learnerState, 0, 0, FALSE))

\* blocks.sort by start: a stable sort.
RECURSIVE SortBlocks(_)
SortBlocks(blocks) ==
  IF blocks = <<>> THEN <<>>
  ELSE LET i == CHOOSE k \in DOMAIN blocks :
                  /\ \A j \in DOMAIN blocks : blocks[k].startT <= blocks[j].startT
                  /\ \A j \in 1..(k - 1) : blocks[j].startT > blocks[k].startT
       IN  <<blocks[i]>> \o SortBlocks(SubSeq(blocks, 1, i - 1)
                                        \o SubSeq(blocks, i + 1, Len(blocks)))

\* The end of the session that ends last among the sessions of S that start
\* on the day, or -1 when none does.
LastEndOfDay(S, day) ==
  LET ends == {SessionTable[x].endT : x \in {y \in S : DayKey(SessionTable[y].startT) = day}}
  IN  IF ends = {} THEN 0 - 1 ELSE CHOOSE e \in ends : \A f \in ends : f <= e

WithRationale(block, rationale) == [block EXCEPT !.rationale = rationale]

\* The value of F at x, with x worked out once.
Given(x, F(_)) == CHOOSE y \in {F(v) : v \in {x}} : TRUE

\* if (options.wakeWindowAdjustmentMin) wakeWindowMin = Math.max(30, ...)
AdjustedWakeWindow(wakeWindowMin, adjustment) ==
  IF adjustment # 0 THEN Max2(MinWhatIfWakeWindow, wakeWindowMin + adjustment)
  ELSE wakeWindowMin

\* The instant the day's naps are generated from: the end of the day's last
\* session, else the reference time when it is after the start of the day,
\* else 7:00 of the day.
LastWakeTime(active, day, referenceTime) ==
  LET lastEnd == LastEndOfDay(active, day)
      dayStart == day * MinutesPerDay
  IN  IF lastEnd >= 0 THEN lastEnd
      ELSE IF referenceTime > dayStart THEN referenceTime
      ELSE dayStart + DefaultDayStartHour * 60

\* The naps of the day, with the what-if rationale when there is an
\* adjustment.
DayNaps(lastWakeTime, wakeWindowMin, napLengthMin, learnerState, referenceTime, isWhatIf) ==
  LET naps == GenerateNaps(lastWakeTime, wakeWindowMin, napLengthMin, learnerState,
                           referenceTime, MaxNapsPerDay)
  IN  IF isWhatIf
        THEN [i \in DOMAIN naps |->
                WithRationale(naps[i], GenerateRationale("nap", learnerState, wakeWindowMin,
                                                         napLengthMin, TRUE))]
      ELSE naps

\* The bedtime after the last nap (or the last wake), its wind-down before
\* it, and the day's blocks sorted by start.
DayBlocks(naps, lastWakeTime, wakeWindowMin, learnerState, referenceTime, isWhatIf) ==
  LET lastNapEnd == IF Len(naps) > 0 THEN naps[Len(naps)].endT ELSE lastWakeTime
      generated == GenerateBedtime(lastNapEnd, wakeWindowMin, learnerState, referenceTime)
      bedtime == IF isWhatIf
                   THEN WithRationale(generated,
                          GenerateRationale("bedtime", learnerState, wakeWindowMin, 0, TRUE))
                 ELSE generated
      WindDownOf(b) ==
        IF isWhatIf
          THEN WithRationale(GenerateWindDown(b.startT, learnerState),
                             GenerateRationale("windDown", learnerState, 0, 0, TRUE))
        ELSE GenerateWindDown(b.startT, learnerState)
  IN  Given(bedtime, LAMBDA b : SortBlocks(naps \o <<WindDownOf(b), b>>))

\* generateDaySchedule for the day numbered `day`, on the sessions that are
\* not deleted; `adjustment` is options.wakeWindowAdjustmentMin (0 when it
\* is absent) and referenceTime is options.referenceTimeISO || time.nowISO().
GenerateDaySchedule(day, active, learnerState, birth, adjustment, referenceTime, now) ==
  LET learnedWakeWindow == GetLearnedWakeWindow(learnerState, birth, now)
      learnedNapLength == GetLearnedNapLength(learnerState, birth, now)
      isWhatIf == adjustment # 0
  IN  IF learnedWakeWindow.threw \/ learnedNapLength.threw
        THEN [threw |-> TRUE, blocks |-> <<>>]
      ELSE [threw |-> FALSE,
            blocks |->
              Given(AdjustedWakeWindow(learnedWakeWindow.value \div Centi, adjustment),
                LAMBDA wakeWindowMin :
                  Given(LastWakeTime(active, day, referenceTime),
                    LAMBDA lastWakeTime :
                      Given(DayNaps(lastWakeTime, wakeWindowMin,
                                    learnedNapLength.value \div Centi, learnerState,
                                    referenceTime, isWhatIf),
                        LAMBDA naps : DayBlocks(naps, lastWakeTime, wakeWindowMin,
                                                learnerState, referenceTime, isWhatIf))))]

\* options.referenceTimeISO when the option is absent.
NoReference == 0 - 1

\* generateSchedule(sessions, learnerState, babyProfile, options) on the
\* sessions that are not deleted: [threw, today, tomorrow].  A block of today
\* is kept when it starts at the reference time's minute or later.
GenerateSchedule(active, learnerState, birth, adjustment, reference, now) ==
  LET referenceTime == IF reference = NoReference THEN now ELSE reference
      today == DayKey(referenceTime)
      tomorrow == DayKey(referenceTime + MinutesPerDay)
      Result(todayBlocks, tomorrowBlocks) ==
        IF todayBlocks.threw \/ tomorrowBlocks.threw
          THEN [threw |-> TRUE, today |-> <<>>, tomorrow |-> <<>>]
        ELSE [threw |-> FALSE,
              today |-> SelectSeq(todayBlocks.blocks, LAMBDA b : b.startT >= referenceTime),
              tomorrow |-> tomorrowBlocks.blocks]
  IN  Given(GenerateDaySchedule(today, active, learnerState, birth, adjustment,
                                referenceTime, now),
        LAMBDA todayBlocks :
          Given(GenerateDaySchedule(tomorrow, active, learnerState, birth, adjustment,
                                    referenceTime, now),
            LAMBDA tomorrowBlocks : Result(todayBlocks, tomorrowBlocks)))

\* generateWhatIfSchedule(sessions, learnerState, babyProfile, adjustment)
GenerateWhatIfSchedule(active, learnerState, birth, adjustment, now) ==
  LET clampedAdjustment == Max2(0 - WhatIfAdjustmentRange,
                                Min2(WhatIfAdjustmentRange, adjustment))
  IN  GenerateSchedule(active, learnerState, birth, clampedAdjustment, NoReference, now)

(***************************************************************************)
(* SpecSched: a session list of sessions that start from the eve of the    *)
(* clock's day on, a profile, a learner state and the clock are given; the *)
(* generator is called with options, or for a what-if adjustment, and its  *)
(* result is kept.                                                         *)
(***************************************************************************)
SchedClocks == {At(50, 6, 30), At(50, 13, 0), At(50, 19, 10), At(50, 21, 30)}

SchedSessionLists ==
  {l \in SessionLists :
     \A x \in l.active \cup l.deleted : SessionTable[x].startT >= At(49, 0, 0)}

\* The learner states given to the generator: none, two it uses (moderate
\* and high confidence) and one at confidence 0.2, which it does not use.
SchedStates ==
  {NullState, LearnerState(150 * Centi, 90 * Centi, Unit \div 2),
   LearnerState(60 * Centi, 30 * Centi, (9 * Unit) \div 10),
   LearnerState(1000 * Centi, 5 * Centi, Unit \div 5)}

\* options.wakeWindowAdjustmentMin (0: absent) and options.referenceTimeISO.
Adjustments == {0 - 45, 0 - 30, 0, 20, 45}

References == {NoReference, At(50, 11, 45)}

NoResult == [threw |-> FALSE, today |-> <<>>, tomorrow |-> <<>>]

NoCall == [op |-> "none", adjustment |-> 0, reference |-> NoReference]

InitSched ==
  /\ history = <<>>
  /\ pending = {}
  /\ clock = 0
  /\ nextHandle = 1
  /\ made = 0
  /\ appended = <<>>
  /\ bulk = IdleBulk
  /\ last = NoOp
  /\ tasks = NoTasks
  /\ learner = NoLearner
  /\ store = NoStore
  /\ coach = NoCoach
  /\ \E l \in SchedSessionLists, birth \in BirthDates, st \in SchedStates, now \in SchedClocks :
       schedule = [pc |-> "ready", active |-> l.active, deleted |-> l.deleted,
                   birth |-> birth, state |-> st, now |-> now,
                   call |-> NoCall, result |-> NoResult]

\* A caller runs generateSchedule with the given options.
CallGenerateSchedule(adjustment, reference) ==
  /\ schedule.pc = "ready"
  /\ schedule' = [schedule EXCEPT
                    !.pc = "done",
                    !.call = [op |-> "generateSchedule", adjustment |-> adjustment,
                              reference |-> reference],
                    !.result = GenerateSchedule(schedule.active, schedule.state,
                                                schedule.birth, adjustment, reference,
                                                schedule.now)]
  /\ UNCHANGED <<notifVars, learner, store, coach>>

\* A caller runs generateWhatIfSchedule with the given adjustment.
CallGenerateWhatIfSchedule(adjustment) ==
  /\ schedule.pc = "ready"
  /\ schedule' = [schedule EXCEPT
                    !.pc = "done",
                    !.call = [op |-> "generateWhatIfSchedule", adjustment |-> adjustment,
                              reference |-> NoReference],
                    !.result = GenerateWhatIfSchedule(schedule.active, schedule.state,
                                                      schedule.birth, adjustment,
                                                      schedule.now)]
  /\ UNCHANGED <<notifVars, learner, store, coach>>

NextSched ==
  \/ \E adjustment \in Adjustments, reference \in References :
       CallGenerateSchedule(adjustment, reference)
  \/ \E adjustment \in Adjustments : CallGenerateWhatIfSchedule(adjustment)

SpecSched == InitSched /\ [][NextSched]_vars

(***************************************************************************)
(* Claims about the schedule generator.                                    *)
(***************************************************************************)
\* The generator was called and returned a result.
Generated == schedule.pc = "done" /\ ~schedule.result.threw

NapsOf(list) == {i \in DOMAIN list : list[i].kind = "nap"}

\* C10: in every result of generateSchedule (and of generateWhatIfSchedule,
\* which returns one), no nap of today or tomorrow starts at hour 18 or
\* later, each of the two lists holds at most 3 naps, and every wind-down
\* ends at the start of the bedtime of its list, the one it was generated
\* for.
C10_NapsBeforeEveningAtMostThreeWindDownMeetsBedtime ==
  Generated =>
    \A list \in {schedule.result.today, schedule.result.tomorrow} :
      /\ \A i \in NapsOf(list) : HourOf(list[i].startT) < 18
      /\ Cardinality(NapsOf(list)) <= 3
      /\ \A i \in DOMAIN list :
           list[i].kind = "windDown" =>
             \E j \in DOMAIN list :
               /\ list[j].kind = "bedtime"
               /\ list[j].startT = list[i].endT
               /\ list[i].startT = list[j].startT - 30

\* A result whose list of today holds 3 naps, the last of them starting
\* during the hour of 17, then a wind-down and its bedtime.
C10_Witness ==
  /\ Generated
  /\ Cardinality(NapsOf(schedule.result.today)) = 3
  /\ \E i \in NapsOf(schedule.result.today) : HourOf(schedule.result.today[i].startT) = 17
  /\ \E i, j \in DOMAIN schedule.result.today :
       /\ schedule.result.today[i].kind = "windDown"
       /\ schedule.result.today[j].kind = "bedtime"
       /\ schedule.result.today[j].startT = schedule.result.today[i].endT

\* The blocks of a result, today's then tomorrow's.
AllBlocks == schedule.result.today \o schedule.result.tomorrow

\* C11: within one generateSchedule call, of any two returned blocks (of any
\* kind) the one that starts later has a confidence that is not greater than
\* that of the one that starts no later.
C11_ConfidenceNonIncreasingWithLeadTime ==
  Generated =>
    \A i, j \in DOMAIN AllBlocks :
      AllBlocks[i].startT <= AllBlocks[j].startT
        => AllBlocks[j].confidence <= AllBlocks[i].confidence

\* The reference time of the call whose result is kept.
CallReference ==
  IF schedule.call.reference = NoReference THEN schedule.now ELSE schedule.call.reference

\* The blocks normal generation makes for a day from a given wake window
\* (and the learned nap length), as generateDaySchedule does without an
\* adjustment.
NormalDay(day, wakeWindowMin) ==
  LET lastWakeTime == LastWakeTime(schedule.active, day, CallReference)
      napLengthMin ==
        GetLearnedNapLength(schedule.state, schedule.birth, schedule.now).value \div Centi
      naps == DayNaps(lastWakeTime, wakeWindowMin, napLengthMin, schedule.state,
                      CallReference, FALSE)
  IN  DayBlocks(naps, lastWakeTime, wakeWindowMin, schedule.state, CallReference, FALSE)

\* A list of blocks without their rationales.
Unlabelled(list) ==
  [i \in DOMAIN list |->
     [id |-> list[i].id, kind |-> list[i].kind, startT |-> list[i].startT,
      endT |-> list[i].endT, confidence |-> list[i].confidence]]

\* The wake window the claim gives a what-if call: max(30, w + clamp(delta)).
WhatIfWakeWindow ==
  LET w == GetLearnedWakeWindow(schedule.state, schedule.birth, schedule.now).value \div Centi
      delta == schedule.call.adjustment
      clamped == IF delta < 0 - 30 THEN 0 - 30 ELSE IF delta > 30 THEN 30 ELSE delta
  IN  Max2(30, w + clamped)

\* C12: for every requested delta (0 included), the result of
\* generateWhatIfSchedule holds the blocks of normal generation with wake
\* window max(30, w + clamp(delta, -30, 30)), and the rationale of every
\* block of the result is a what-if rationale.
C12_WhatIfIsNormalGenerationTaggedWhatIf ==
  (Generated /\ schedule.call.op = "generateWhatIfSchedule") =>
    LET today == DayKey(schedule.now)
        expectedToday == SelectSeq(NormalDay(today, WhatIfWakeWindow),
                                   LAMBDA b : b.startT >= schedule.now)
        expectedTomorrow == NormalDay(today + 1, WhatIfWakeWindow)
    IN  /\ Unlabelled(schedule.result.today) = Unlabelled(expectedToday)
        /\ Unlabelled(schedule.result.tomorrow) = Unlabelled(expectedTomorrow)
        /\ \A i \in DOMAIN AllBlocks : AllBlocks[i].rationale.form = "whatIf"

\* generateSchedule was called without an adjustment on an empty list of
\* active sessions and a null learner state, and returned.
BaselineCall ==
  /\ Generated
  /\ schedule.call.op = "generateSchedule"
  /\ schedule.call.adjustment = 0
  /\ schedule.active = {}
  /\ ~schedule.state.present

\* The text 'baseline' occurs in the rationale: of the six texts, only in
\* 'Based on age baseline'.
MentionsBaseline(rationale) == RationaleText(rationale) = "Based on age baseline"

C14_BedtimeHourWithinRange ==
  Generated =>
    \A i \in DOMAIN AllBlocks :
      AllBlocks[i].kind = "bedtime"
        => /\ BedtimeEarliest <= HourOf(AllBlocks[i].startT)
           /\ HourOf(AllBlocks[i].startT) <= BedtimeLatest

\* C15: the blocks one generateSchedule call returns, today's and tomorrow's
\* together, have pairwise distinct ids.
C15_BlockIdsPairwiseDistinct ==
  Generated =>
    \A i, j \in DOMAIN AllBlocks :
      AllBlocks[i].id = AllBlocks[j].id => i = j

\* C17: on well-formed input (every session ends after it starts, the birth
\* date is not after the clock) updateLearner returns and raises no error,
\* wherever the sessions lie relative to the birth date and to the clock.
C17_NoErrorOnWellFormedInput ==
  (learner.pc \in {"ready", "threw"} /\ learner.runs > 0 /\ learner.birth <= learner.now)
    => learner.pc # "threw"

(***************************************************************************)
(* Part 4 - the session store (stores/sleepSessionsStore.ts) and the       *)
(* handlers of the sleep log screen that feed it (specification            *)
(* SpecStore).  Each handler runs to completion before the next starts.    *)
(* A session is modelled by its id, start, end, deleted flag and update    *)
(* timestamp; source, quality and notes are carried along unread by the    *)
(* code and are left out.  A write to storage may raise.                   *)
(***************************************************************************)
\* The largest number of sessions the collection holds in the model.
MaxStored == 2

\* The ids given out in one behaviour.
MaxSessionIds == MaxStored + 1

\* A timestamp that does not parse.
InvalidDate == 0 - 1

\* timerStart when it is null.
NoTimer == 0 - 2

\* The readings of the clock, in order.
StoreClocks == <<At(50, 9, 0), At(50, 9, 40)>>

\* The timestamps a manual entry or an update can carry.
EntryTimes == {InvalidDate, At(50, 9, 0), At(50, 9, 40)}

\* time.validateRange(startISO, endISO)
ValidateRange(startT, endT) ==
  IF startT = InvalidDate \/ endT = InvalidDate
    THEN [isValid |-> FALSE, error |-> "Invalid date format"]
  ELSE IF ~(endT > startT)
    THEN [isValid |-> FALSE, error |-> "End time must be after start time"]
  ELSE [isValid |-> TRUE, error |-> "none"]

\* The session object the screen builds.
NewSession(id, startT, endT, now) ==
  [id |-> id, startT |-> startT, endT |-> endT, deleted |-> FALSE, updatedAt |-> now]

\* Partial<SleepSession>: the updates given to updateSession, here a new end.
Updates == {[field |-> "endT", value |-> v] : v \in EntryTimes}

\* { ...session, ...updates, updatedAtISO: now }
Merge(session, updates, now) ==
  [session EXCEPT ![updates.field] = updates.value, !.updatedAt = now]

\* { ...session, deleted: true, updatedAtISO: now }
MarkDeleted(session, now) ==
  [session EXCEPT !.deleted = TRUE, !.updatedAt = now]

InitStore ==
  /\ history = <<>>
  /\ pending = {}
  /\ clock = 0
  /\ nextHandle = 1
  /\ made = 0
  /\ appended = <<>>
  /\ bulk = IdleBulk
  /\ last = NoOp
  /\ tasks = NoTasks
  /\ learner = NoLearner
  /\ schedule = NoSchedule
  /\ coach = NoCoach
  /\ store = [pc |-> "on", sessions |-> <<>>, persisted |-> <<>>, error |-> FALSE,
              timerStart |-> NoTimer, isTimerRunning |-> FALSE, tick |-> 1, nextId |-> 1]

otherVars == <<notifVars, learner, schedule, coach>>

StoreNow == StoreClocks[store.tick]

\* The clock moves on to its next reading.
StoreTick ==
  /\ store.tick < Len(StoreClocks)
  /\ store' = [store EXCEPT !.tick = store.tick + 1]
  /\ UNCHANGED otherVars

\* The store after it tried to save the collection and to make it current:
\* saveSleepSessions raising leaves the collection and sets the error.
Saved(st, updatedSessions, writeOk) ==
  IF writeOk
    THEN [st EXCEPT !.sessions = updatedSessions, !.persisted = updatedSessions,
                    !.error = FALSE]
    ELSE [st EXCEPT !.error = TRUE]

\* addSession(session), as a function of the store.
AddSession(st, session, writeOk) == Saved(st, Append(st.sessions, session), writeOk)

\* startTimer
StartTimer ==
  /\ store' = [store EXCEPT !.timerStart = StoreNow, !.isTimerRunning = TRUE]
  /\ UNCHANGED otherVars

\* stopTimer: nothing without a running timer; an invalid range is reported
\* and leaves the timer running; else the session is added and the timer
\* reset.
StopTimer ==
  /\ store.timerStart # NoTimer
  /\ Len(store.sessions) < MaxStored
  /\ store.nextId <= MaxSessionIds
  /\ \E writeOk \in BOOLEAN :
       IF ~ValidateRange(store.timerStart, StoreNow).isValid
         THEN /\ writeOk
              /\ UNCHANGED store
         ELSE store' = [AddSession(store, NewSession(store.nextId, store.timerStart,
                                                     StoreNow, StoreNow), writeOk)
                          EXCEPT !.timerStart = NoTimer, !.isTimerRunning = FALSE,
                                 !.nextId = store.nextId + 1]
  /\ UNCHANGED otherVars

\* handleSaveManualEntry(data)
HandleSaveManualEntry(startT, endT) ==
  /\ Len(store.sessions) < MaxStored
  /\ store.nextId <= MaxSessionIds
  /\ \E writeOk \in BOOLEAN :
       IF ~ValidateRange(startT, endT).isValid
         THEN /\ writeOk
              /\ UNCHANGED store
         ELSE store' = [AddSession(store, NewSession(store.nextId, startT, endT, StoreNow),
                                   writeOk)
                          EXCEPT !.nextId = store.nextId + 1]
  /\ UNCHANGED otherVars

\* updateSession(id, updates)
UpdateSession(id, updates) ==
  /\ \E writeOk \in BOOLEAN :
       store' = Saved(store,
                      [i \in DOMAIN store.sessions |->
                         IF store.sessions[i].id = id
                           THEN Merge(store.sessions[i], updates, StoreNow)
                           ELSE store.sessions[i]],
                      writeOk)
  /\ UNCHANGED otherVars

\* deleteSession removing the session from the collection.
DeleteSessionRemoving(id) ==
  /\ \E writeOk \in BOOLEAN :
       store' = Saved(store, SelectSeq(store.sessions, LAMBDA x : x.id # id), writeOk)
  /\ UNCHANGED otherVars

\* deleteSession(id)
DeleteSession(id) ==
  /\ \E writeOk \in BOOLEAN :
       store' = Saved(store,
                      [i \in DOMAIN store.sessions |->
                         IF store.sessions[i].id = id
                           THEN MarkDeleted(store.sessions[i], StoreNow)
                           ELSE store.sessions[i]],
                      writeOk)
  /\ UNCHANGED otherVars

\* clearAllSessions
ClearAllSessions ==
  /\ \E writeOk \in BOOLEAN : store' = Saved(store, <<>>, writeOk)
  /\ UNCHANGED otherVars

\* loadSessions: the persisted collection, or the empty one when the stored
\* text does not parse (loadJson removes the item then).
LoadSessions ==
  /\ \E corrupted \in BOOLEAN :
       store' = IF corrupted
                  THEN [store EXCEPT !.sessions = <<>>, !.persisted = <<>>, !.error = FALSE]
                  ELSE [store EXCEPT !.sessions = store.persisted, !.error = FALSE]
  /\ UNCHANGED otherVars

StoreIds == 1..MaxSessionIds

NextStore ==
  \/ StoreTick
  \/ StartTimer
  \/ StopTimer
  \/ \E startT, endT \in EntryTimes : HandleSaveManualEntry(startT, endT)
  \/ \E id \in StoreIds, updates \in Updates : UpdateSession(id, updates)
  \/ \E id \in StoreIds : DeleteSession(id)
  \/ ClearAllSessions
  \/ LoadSessions

SpecStore == InitStore /\ [][NextStore]_vars

(***************************************************************************)
(* Claims about the session store.                                         *)
(***************************************************************************)
\* C18: after any sequence of timer, manual-entry, updateSession and
\* deleteSession operations, every session of the collection has parsable
\* timestamps and its end strictly after its start.
C18_StoredSessionsEndAfterStart ==
  store.pc = "on" =>
    \A i \in DOMAIN store.sessions :
      ValidateRange(store.sessions[i].startT, store.sessions[i].endT).isValid

\* C19 as stated: no step of the session store removes a session from the
\* collection.
C19_Original ==
  [][\A i \in DOMAIN store.sessions :
       \E j \in DOMAIN store'.sessions : store'.sessions[j].id = store.sessions[i].id]_vars

\* The session at position i gets its deleted flag in the step.
Flagged(i) ==
  /\ i \in DOMAIN store.sessions
  /\ i \in DOMAIN store'.sessions
  /\ store'.sessions[i].id = store.sessions[i].id
  /\ ~store.sessions[i].deleted
  /\ store'.sessions[i].deleted

\* C19: the collection loses a session only in a step of clearAllSessions,
\* which empties it, or of loadSessions, which replaces it by what storage
\* holds; in every other step each session stays at its position with its
\* id, and a step that flags a session as deleted sets that session's flag
\* and its update timestamp to the clock and leaves the collection's size
\* and every other session as they were.
C19_OnlyClearAndLoadRemove ==
  [][/\ (\E i \in DOMAIN store.sessions :
           \A j \in DOMAIN store'.sessions : store'.sessions[j].id # store.sessions[i].id)
          => (ClearAllSessions \/ LoadSessions)
     /\ ~(ClearAllSessions \/ LoadSessions)
          => \A i \in DOMAIN store.sessions :
               /\ i \in DOMAIN store'.sessions
               /\ store'.sessions[i].id = store.sessions[i].id
     /\ \A i \in DOMAIN store.sessions :
          Flagged(i) =>
            /\ Len(store'.sessions) = Len(store.sessions)
            /\ \A j \in DOMAIN store.sessions :
                 store'.sessions[j] =
                   IF store.sessions[j].id = store.sessions[i].id
                     THEN [store.sessions[j] EXCEPT !.deleted = TRUE, !.updatedAt = StoreNow]
                     ELSE store.sessions[j]]_vars

\* Two sessions are held, the first flagged as deleted at the later clock
\* reading, the second untouched since the earlier one.
C19_Witness ==
  /\ store.pc = "on"
  /\ Len(store.sessions) = 2
  /\ store.sessions[1].deleted
  /\ store.sessions[1].updatedAt = StoreClocks[2]
  /\ ~store.sessions[2].deleted
  /\ store.sessions[2].updatedAt = StoreClocks[1]

(***************************************************************************)
(* Part 5 - the coach (services/coach.ts): the four detectors and          *)
(* generateCoachTips (specification SpecCoach).  A call reads the clock    *)
(* once for its filters; a tip carries the numbers its message is built    *)
(* from.  A detector first decides on its tip and then gives it an id and  *)
(* a creation time, which enter no decision: Date.now() may have moved on  *)
(* since the previous tip, and Math.random() is drawn by the environment.  *)
(* The                                                                     *)
(* sessions of the table start at pairwise different instants, so the      *)
(* order of the list given to a detector does not show in its sorts.       *)
(***************************************************************************)
ShortNapMinutes == 30

ShortNapStreakCount == 3

LongWakeWindowMultiplierTenths == 12

SplitNightGapMinutes == 60

ShortNapWindowDays == 5

RecentNapCount == 5

HighStreakCount == 4

OvertiredWindowDays == 7

BedtimeWindowDays == 3

NightFromHour == 18

NightMinDurationMin == 240

TypicalBedtimeHour == 19

BedtimeShiftThreshold == 30

BedtimeShiftHigh == 60

SplitNightGapHigh == 120

MinSessionsForTips == 3

\* The largest number of sessions given to the coach in the model.
MaxCoachSessions == 6

\* Daytime naps of days 44 to 50, short and long; a night; an evening sleep
\* of four hours and the night that follows it 70 minutes later.
CoachSessionTable ==
  << [startT |-> At(50, 15, 0),  endT |-> At(50, 15, 40)],
     [startT |-> At(50, 13, 0),  endT |-> At(50, 13, 20)],
     [startT |-> At(50, 10, 0),  endT |-> At(50, 10, 25)],
     [startT |-> At(49, 14, 0),  endT |-> At(49, 14, 20)],
     [startT |-> At(49, 10, 0),  endT |-> At(49, 10, 45)],
     [startT |-> At(48, 13, 0),  endT |-> At(48, 13, 29)],
     [startT |-> At(47, 10, 0),  endT |-> At(47, 10, 30)],
     [startT |-> At(44, 18, 0),  endT |-> At(44, 18, 10)],
     [startT |-> At(49, 18, 30), endT |-> At(50, 5, 30)],
     [startT |-> At(48, 18, 0),  endT |-> At(48, 22, 0)],
     [startT |-> At(48, 23, 10), endT |-> At(49, 5, 10)] >>

CoachSessionIds == DOMAIN CoachSessionTable

CoachStart(x) == CoachSessionTable[x].startT

CoachEnd(x) == CoachSessionTable[x].endT

CoachDuration(x) == DurationMinutes(CoachStart(x), CoachEnd(x))

\* sort by start, ascending
RECURSIVE CoachSortByStart(_)
CoachSortByStart(S) ==
  IF S = {} THEN <<>>
  ELSE LET first == CHOOSE x \in S : \A y \in S : CoachStart(x) <= CoachStart(y)
       IN  <<first>> \o CoachSortByStart(S \ {first})

\* sort by start, descending
RECURSIVE CoachSortByStartDescending(_)
CoachSortByStartDescending(S) ==
  IF S = {} THEN <<>>
  ELSE LET first == CHOOSE x \in S : \A y \in S : CoachStart(x) >= CoachStart(y)
       IN  <<first>> \o CoachSortByStartDescending(S \ {first})

\* [...new Set(ids.map(dayKey))]: the day keys in order of first occurrence.
RECURSIVE DateKeys(_)
DateKeys(ids) ==
  IF ids = <<>> THEN <<>>
  ELSE LET rest == DateKeys(SubSeq(ids, 1, Len(ids) - 1))
           key == DayKey(CoachStart(ids[Len(ids)]))
       IN  IF \E i \in DOMAIN rest : rest[i] = key THEN rest ELSE Append(rest, key)

\* generateTipId(): Date.now(), as the minute and the time since it began,
\* and the random suffix.
GenerateTipId(now, stamp) == <<"tip", now, stamp.ms, stamp.random>>

NoTip == [present |-> FALSE]

\* The tip a detector decides on, before its id and creation time.
Tip(detector, type, title, severity, relatedSessionIds, relatedDateKeys, detail) ==
  [present |-> TRUE, detector |-> detector, type |-> type, title |-> title,
   severity |-> severity, relatedSessionIds |-> relatedSessionIds,
   relatedDateKeys |-> relatedDateKeys, detail |-> detail]

\* id: generateTipId() and createdAtISO: time.nowISO() of a tip.
Stamped(tip, now, stamp) ==
  [present |-> TRUE, id |-> GenerateTipId(now, stamp), type |-> tip.type,
   title |-> tip.title, severity |-> tip.severity,
   relatedSessionIds |-> tip.relatedSessionIds, relatedDateKeys |-> tip.relatedDateKeys,
   createdAt |-> now, createdMs |-> stamp.ms, detail |-> tip.detail]

\* The sessions of the last `days` days: now.diff(start, 'day') <= days.
RecentSessions(sessions, now, days) ==
  {x \in sessions : DiffDays(now, CoachStart(x)) <= days}

\* naps.slice(0, 5) without the slice.
RecentNapsUnsliced(naps) == naps

\* naps.slice(0, 5)
RecentNaps(naps) == SubSeq(naps, 1, Min2(RecentNapCount, Len(naps)))

\* detectShortNapStreak(sessions, babyProfile)
DetectShortNapStreak(sessions, now) ==
  LET naps == {x \in RecentSessions(sessions, now, ShortNapWindowDays) :
                 /\ CoachDuration(x) < MaxNapDurationMin
                 /\ HourOf(CoachStart(x)) >= DaytimeFromHour
                 /\ HourOf(CoachStart(x)) < DaytimeToHour}
      recentNaps == RecentNaps(CoachSortByStartDescending(naps))
      shortNaps == SelectSeq(recentNaps, LAMBDA x : CoachDuration(x) < ShortNapMinutes)
  IN  IF Len(shortNaps) >= ShortNapStreakCount
        THEN Tip(1, "warning", "Short Nap Streak",
                 IF Len(shortNaps) >= HighStreakCount THEN "high" ELSE "medium",
                 shortNaps, DateKeys(shortNaps),
                 [count |-> Len(shortNaps), of |-> Len(recentNaps)])
        ELSE NoTip

\* The first of the longest gaps: reduce keeps the earlier of two equal ones.
Longest(gaps) ==
  CHOOSE i \in DOMAIN gaps :
    /\ \A j \in DOMAIN gaps : gaps[j].wakeWindowMin <= gaps[i].wakeWindowMin
    /\ \A j \in 1..(i - 1) : gaps[j].wakeWindowMin < gaps[i].wakeWindowMin

\* detectOvertiredWarning(sessions, learnerState, babyProfile): [threw, tip]
DetectOvertiredWarning(sessions, learnerState, birth, now) ==
  LET recent == CoachSortByStart(RecentSessions(sessions, now, OvertiredWindowDays))
      learned == GetLearnedWakeWindow(learnerState, birth, now)
      all == [i \in 1..(Len(recent) - 1) |->
                [session |-> recent[i + 1],
                 wakeWindowMin |-> DurationMinutes(CoachEnd(recent[i]),
                                                   CoachStart(recent[i + 1]))]]
      long == SelectSeq(all, LAMBDA w :
                /\ w.wakeWindowMin >= MinWakeWindowMin
                /\ w.wakeWindowMin <= MaxWakeWindowMin
                /\ w.wakeWindowMin * Centi * 10
                     > learned.value * LongWakeWindowMultiplierTenths)
  IN  IF Len(recent) < 2 THEN [threw |-> FALSE, tip |-> NoTip]
      ELSE IF learned.threw THEN [threw |-> TRUE, tip |-> NoTip]
      ELSE IF long = <<>> THEN [threw |-> FALSE, tip |-> NoTip]
      ELSE LET longest == long[Longest(long)]
           IN  [threw |-> FALSE,
                tip |-> Tip(2, "warning", "Overtired Warning",
                            IF longest.wakeWindowMin * Centi * 2 > learned.value * 3
                              THEN "high" ELSE "medium",
                            <<longest.session>>, <<DayKey(CoachStart(longest.session))>>,
                            [wakeWindowMin |-> longest.wakeWindowMin,
                             target |-> learned.value])]

\* A session that counts as a night: it starts at 18:00 or later and lasts
\* four hours or more.
IsNight(x) ==
  /\ HourOf(CoachStart(x)) >= NightFromHour
  /\ CoachDuration(x) >= NightMinDurationMin

Abs(n) == IF n < 0 THEN 0 - n ELSE n

\* detectBedtimeShift(sessions, learnerState, babyProfile): [threw, tip].
\* The mean bedtime is total / n; it is compared with 19:00 on both sides
\* multiplied by n.
DetectBedtimeShift(sessions, birth, now) ==
  LET recent == CoachSortByStart(RecentSessions(sessions, now, BedtimeWindowDays))
      bedtimes == SelectSeq(recent, IsNight)
      n == Len(bedtimes)
      totalMinutes == SumSeq([i \in 1..n |-> HourOf(CoachStart(bedtimes[i])) * 60
                                               + MinuteOf(CoachStart(bedtimes[i]))])
      shiftTimesN == totalMinutes - TypicalBedtimeHour * 60 * n
  IN  IF n < 2 THEN [threw |-> FALSE, tip |-> NoTip]
      ELSE IF CalculateAgeMonths(birth, now).threw THEN [threw |-> TRUE, tip |-> NoTip]
      ELSE IF Abs(shiftTimesN) > BedtimeShiftThreshold * n
        THEN [threw |-> FALSE,
              tip |-> Tip(3, "suggestion", "Bedtime Shift Detected",
                          IF Abs(shiftTimesN) > BedtimeShiftHigh * n THEN "high" ELSE "medium",
                          bedtimes, DateKeys(bedtimes),
                          [direction |-> IF shiftTimesN > 0 THEN "later" ELSE "earlier",
                           shiftTimesN |-> Abs(shiftTimesN), nights |-> n])]
      ELSE [threw |-> FALSE, tip |-> NoTip]

\* The gap measured from the start of the previous night.
FirstSplitFromStart(nights) ==
  LET gap(i) == CoachStart(nights[i]) - CoachStart(nights[i - 1])
      hits == {i \in 2..Len(nights) : gap(i) > SplitNightGapMinutes}
  IN  IF hits = {} THEN [found |-> FALSE, gapMinutes |-> 0]
      ELSE [found |-> TRUE,
            gapMinutes |-> gap(CHOOSE i \in hits : \A j \in hits : i <= j)]

\* The first pair of consecutive nights of one day that lie more than an
\* hour apart, as [found, gapMinutes].
FirstSplit(nights) ==
  LET gap(i) == CoachStart(nights[i]) - CoachEnd(nights[i - 1])
      hits == {i \in 2..Len(nights) : gap(i) > SplitNightGapMinutes}
  IN  IF hits = {} THEN [found |-> FALSE, gapMinutes |-> 0]
      ELSE [found |-> TRUE,
            gapMinutes |-> gap(CHOOSE i \in hits : \A j \in hits : i <= j)]

\* detectSplitNight(sessions, babyProfile): the days are visited in the
\* order of their first session.
DetectSplitNight(sessions, now) ==
  LET recent == RecentSessions(sessions, now, BedtimeWindowDays)
      nightsOf(day) == CoachSortByStart({x \in recent : DayKey(CoachStart(x)) = day
                                                         /\ IsNight(x)})
      days == {DayKey(CoachStart(x)) : x \in recent}
      split == {day \in days : Len(nightsOf(day)) >= 2 /\ FirstSplit(nightsOf(day)).found}
  IN  IF split = {} THEN NoTip
      ELSE LET dayKey == CHOOSE day \in split : \A other \in split : day <= other
               gapMinutes == FirstSplit(nightsOf(dayKey)).gapMinutes
           IN  Tip(4, "warning", "Split Night Detected",
                   IF gapMinutes > SplitNightGapHigh THEN "high" ELSE "medium",
                   nightsOf(dayKey), <<dayKey>>,
                   [gapMinutes |-> gapMinutes, nights |-> Len(nightsOf(dayKey))])

\* The titles of the tips of the four detectors, in the order they run.
DetectorTitles ==
  <<"Short Nap Streak", "Overtired Warning", "Bedtime Shift Detected", "Split Night Detected">>

SeverityOrder(severity) ==
  CASE severity = "high" -> 3 [] severity = "medium" -> 2 [] severity = "low" -> 1

\* The comparison with the older tip first.
TipBeforeOldestFirst(a, b) ==
  \/ SeverityOrder(a.severity) > SeverityOrder(b.severity)
  \/ /\ SeverityOrder(a.severity) = SeverityOrder(b.severity)
     /\ \/ a.createdAt < b.createdAt
        \/ a.createdAt = b.createdAt /\ a.createdMs < b.createdMs

\* a sorts before b: higher severity first, then the newer tip first.
TipBefore(a, b) ==
  \/ SeverityOrder(a.severity) > SeverityOrder(b.severity)
  \/ /\ SeverityOrder(a.severity) = SeverityOrder(b.severity)
     /\ \/ a.createdAt > b.createdAt
        \/ a.createdAt = b.createdAt /\ a.createdMs > b.createdMs

\* tips.sort(...): a stable sort.
RECURSIVE SortTips(_)
SortTips(tips) ==
  IF tips = <<>> THEN <<>>
  ELSE LET i == CHOOSE k \in DOMAIN tips :
                  /\ \A j \in DOMAIN tips : ~TipBefore(tips[j], tips[k])
                  /\ \A j \in 1..(k - 1) : TipBefore(tips[k], tips[j])
       IN  <<tips[i]>> \o SortTips(SubSeq(tips, 1, i - 1) \o SubSeq(tips, i + 1, Len(tips)))

\* The detectors run in order: [threw, tips], the tips they decide on.
RunDetectors(active, learnerState, birth, now) ==
  LET shortNapTip == DetectShortNapStreak(active, now)
      overtired == DetectOvertiredWarning(active, learnerState, birth, now)
      bedtimeShift == DetectBedtimeShift(active, birth, now)
      splitNightTip == DetectSplitNight(active, now)
  IN  IF overtired.threw \/ bedtimeShift.threw THEN [threw |-> TRUE, tips |-> <<>>]
      ELSE [threw |-> FALSE,
            tips |-> SelectSeq(<<shortNapTip, overtired.tip, bedtimeShift.tip, splitNightTip>>,
                               LAMBDA t : t.present)]

\* The tips with their ids and creation times, sorted: stamps[k] holds the
\* clock reading and the random number of the k-th detector.
Finished(run, now, stamps) ==
  [threw |-> run.threw,
   tips |-> SortTips([i \in DOMAIN run.tips |->
                        Stamped(run.tips[i], now, stamps[run.tips[i].detector])])]

\* generateCoachTips up to the sort: nothing with fewer than 3 active
\* sessions, else what the detectors decide on.
Detected(active, learnerState, birth, now) ==
  IF Cardinality(active) < MinSessionsForTips THEN [threw |-> FALSE, tips |-> <<>>]
  ELSE RunDetectors(active, learnerState, birth, now)

\* generateCoachTips(sessions, learnerState, babyProfile): [threw, tips].
GenerateCoachTips(active, learnerState, birth, now, stamps) ==
  Finished(Detected(active, learnerState, birth, now), now, stamps)

\* The values Math.random() takes in the four detectors of one call.
RandomDraws == {<<"a", "a", "a", "a">>, <<"b", "b", "b", "b">>, <<"a", "b", "a", "b">>}

\* The time since the minute began at which each detector reads the clock
\* for its tip: the clock stands still or moves on between two detectors.
ClockDrifts == {<<0, 0, 0, 0>>, <<0, 0, 0, 1>>, <<0, 0, 1, 1>>, <<0, 1, 1, 1>>}

\* What the environment gives to the tips of one call.
Stamps ==
  {[k \in 1..4 |-> [ms |-> drift[k], random |-> random[k]]] :
     drift \in ClockDrifts, random \in RandomDraws}

\* The clock: the afternoon of day 50, and the morning of day 51, when the
\* nap of day 44 is 6 days old.
CoachClocks == {At(50, 16, 0), At(51, 8, 0)}

\* The profile and the learner state: a 15-month-old without learner state
\* and with a confident one of a short wake window, and a birth date after
\* the clock.
CoachProfiles ==
  { [birth |-> At(0 - 400, 0, 0), state |-> NullState],
    [birth |-> At(0 - 400, 0, 0), state |-> LearnerState(100 * Centi, 40 * Centi, 600)],
    [birth |-> At(60, 0, 0), state |-> NullState] }

\* The lists given to the coach, as the sessions that are not flagged as
\* deleted.
CoachSessionLists ==
  {l \in [active : SUBSET CoachSessionIds, deleted : {{}}] :
     Cardinality(l.active) <= MaxCoachSessions}

NoTips == [called |-> FALSE]

InitCoach ==
  /\ history = <<>>
  /\ pending = {}
  /\ clock = 0
  /\ nextHandle = 1
  /\ made = 0
  /\ appended = <<>>
  /\ bulk = IdleBulk
  /\ last = NoOp
  /\ tasks = NoTasks
  /\ learner = NoLearner
  /\ schedule = NoSchedule
  /\ store = NoStore
  /\ \E l \in CoachSessionLists, profile \in CoachProfiles, now \in CoachClocks :
       coach = [pc |-> "ready", active |-> l.active, deleted |-> l.deleted,
                birth |-> profile.birth, state |-> profile.state, now |-> now,
                first |-> NoTips, second |-> NoTips]

\* The result of a call, as the caller keeps it.
Called(r) == [called |-> TRUE, threw |-> r.threw, tips |-> r.tips]

\* A caller runs generateCoachTips on the sessions that are not deleted.
CallGenerateCoachTips ==
  /\ coach.pc = "ready"
  /\ \E run \in {Detected(coach.active, coach.state, coach.birth, coach.now)} :
       \E stamps \in Stamps :
         coach' = [coach EXCEPT !.pc = "once",
                                !.first = Called(Finished(run, coach.now, stamps))]
  /\ UNCHANGED <<notifVars, learner, schedule, store>>

\* The stamps whose clock readings are those of the tips of the first call.
SameReadings(stamps) ==
  \A i \in DOMAIN coach.first.tips :
    \A k \in 1..4 :
      coach.first.tips[i].title = DetectorTitles[k]
        => stamps[k].ms = coach.first.tips[i].createdMs

\* The caller runs it again on the same input at the same clock readings.
CallGenerateCoachTipsAgain ==
  /\ coach.pc = "once"
  /\ \E run \in {Detected(coach.active, coach.state, coach.birth, coach.now)} :
       \E stamps \in Stamps :
         /\ SameReadings(stamps)
         /\ coach' = [coach EXCEPT !.pc = "twice",
                                   !.second = Called(Finished(run, coach.now, stamps))]
  /\ UNCHANGED <<notifVars, learner, schedule, store>>

NextCoach ==
  \/ CallGenerateCoachTips
  \/ CallGenerateCoachTipsAgain

SpecCoach == InitCoach /\ [][NextCoach]_vars

(***************************************************************************)
(* Claims about the coach.                                                 *)
(***************************************************************************)
\* The first call of generateCoachTips returned.
Coached == coach.pc \in {"once", "twice"} /\ ~coach.first.threw

\* The daytime naps of the last 5 days among the active sessions.
DaytimeNaps ==
  {x \in coach.active :
     /\ DiffDays(coach.now, CoachStart(x)) <= 5
     /\ HourOf(CoachStart(x)) >= 6
     /\ HourOf(CoachStart(x)) < 20
     /\ CoachEnd(x) - CoachStart(x) < 240}

\* Those of them with fewer than 5 later ones.
FiveMostRecent ==
  {x \in DaytimeNaps :
     Cardinality({y \in DaytimeNaps : CoachStart(y) > CoachStart(x)}) < 5}

ShortOfFive == Cardinality({x \in FiveMostRecent : CoachEnd(x) - CoachStart(x) < 30})

StreakTips == {i \in DOMAIN coach.first.tips : coach.first.tips[i].title = "Short Nap Streak"}

C16_TwoCallsReturnTheSame ==
  coach.pc = "twice" => coach.second = coach.first

\* The detector a tip of the first call comes from, by its title.
DetectorOf(i) == CHOOSE k \in 1..4 : DetectorTitles[k] = coach.first.tips[i].title

Rank(severity) == CASE severity = "high" -> 1 [] severity = "medium" -> 2 [] severity = "low" -> 3

\* C21: the list generateCoachTips returns holds at most one tip of each
\* detector; a tip of higher severity comes before one of lower severity,
\* of two tips of equal severity the one created later comes first, and two
\* tips equal in both stand in the order of their detectors.
C21_TipsBySeverityThenNewestThenDetector ==
  Coached =>
    \A i, j \in DOMAIN coach.first.tips :
      i < j =>
        LET a == coach.first.tips[i]
            b == coach.first.tips[j]
        IN  /\ a.title # b.title
            /\ Rank(a.severity) <= Rank(b.severity)
            /\ a.severity = b.severity =>
                 /\ a.createdAt >= b.createdAt
                 /\ a.createdAt = b.createdAt => a.createdMs >= b.createdMs
                 /\ (a.createdAt = b.createdAt /\ a.createdMs = b.createdMs)
                      => DetectorOf(i) < DetectorOf(j)

\* Three tips are returned: one of high severity first, then two of medium
\* severity of which the one created later, by a later detector, comes
\* first.
C21_Witness ==
  /\ Coached
  /\ Len(coach.first.tips) >= 3
  /\ \E i, j, k \in DOMAIN coach.first.tips :
       /\ i < j /\ j < k
       /\ coach.first.tips[i].severity = "high"
       /\ coach.first.tips[j].severity = "medium"
       /\ coach.first.tips[k].severity = "medium"
       /\ coach.first.tips[j].createdMs > coach.first.tips[k].createdMs
       /\ DetectorOf(j) > DetectorOf(k)

\* The wake window the call generates with.
CallWakeWindow ==
  AdjustedWakeWindow(GetLearnedWakeWindow(schedule.state, schedule.birth, schedule.now).value
                       \div Centi,
                     schedule.call.adjustment)

\* C22: tomorrow's naps are generated like today's: with no session logged
\* on tomorrow, tomorrow's list holds a nap that starts at 07:00 of tomorrow
\* plus the wake window whenever that instant is before 18:00.
C22_TomorrowNapsFromSevenPlusWakeWindow ==
  Generated =>
    LET tomorrow == DayKey(CallReference) + 1
        firstNap == tomorrow * MinutesPerDay + 7 * 60 + CallWakeWindow
    IN  (LastEndOfDay(schedule.active, tomorrow) < 0 /\ firstNap < tomorrow * MinutesPerDay + 18 * 60)
          => \E i \in DOMAIN schedule.result.tomorrow :
               /\ schedule.result.tomorrow[i].kind = "nap"
               /\ schedule.result.tomorrow[i].startT = firstNap

\* The wake-window observations the last run of updateLearner used, their
\* total recency weight, and the estimate the run started from.
UsedWakeWindows ==
  RecentOrAll(ExtractWakeWindows(learner.active, learner.birth).items, learner.now)

UsedWakeWeight ==
  SumSeq([i \in DOMAIN UsedWakeWindows |->
            CalculateRecencyWeight(UsedWakeWindows[i].at, learner.now)])

PreviousWakeWindow ==
  IF learner.previous.present THEN learner.previous.ewmaWakeWindowMin
  ELSE GetBaselineForBaby(learner.birth, learner.now).typicalWakeWindowMin * Centi

\* 0.3 times the recency-weighted average of the used observations plus 0.7
\* times the previous estimate, in hundredths of a minute.
BlendedWakeWindow ==
  LET weighted == SumSeq([i \in DOMAIN UsedWakeWindows |->
                            UsedWakeWindows[i].durationMin
                              * CalculateRecencyWeight(UsedWakeWindows[i].at, learner.now)])
      average == (weighted * Centi) \div UsedWakeWeight
  IN  (3 * average + 7 * PreviousWakeWindow) \div 10

\* C23: whenever updateLearner returns and the active sessions yield at least
\* one wake-window observation (of positive total recency weight), the
\* returned wake-window estimate is 0.3 times the recency-weighted average of
\* the observations plus 0.7 times the previous estimate (the baseline's
\* typical value without a previous state), clamped to the age bounds.
C23_WakeWindowIsBlendOfAverageAndPrevious ==
  (Returned /\ Len(UsedWakeWindows) >= 1 /\ UsedWakeWeight > 0) =>
    learner.state.ewmaWakeWindowMin
      = ClampWakeWindow(BlendedWakeWindow, CalculateAgeMonths(learner.birth, learner.now).age)

PreviousNapLength ==
  IF learner.previous.present THEN learner.previous.ewmaNapLengthMin
  ELSE GetBaselineForBaby(learner.birth, learner.now).typicalNapLengthMin * Centi

\* There are observations and each is more than 30 days old.
AllTooOld(items) ==
  /\ Len(items) >= 1
  /\ \A i \in DOMAIN items : DiffDays(learner.now, items[i].at) > MaxSessionAgeDays

\* C24: when updateLearner learns (three or more active sessions) and every
\* wake-window observation is older than 30 days, the returned wake-window
\* estimate is the previous estimate clamped to the age bounds, whether there
\* is one such observation or several; the same for the nap observations and
\* the nap-length estimate.
C24_OldObservationsDoNotInfluence ==
  (Returned /\ Cardinality(learner.active) >= MinSessionsForLearning) =>
    LET age == CalculateAgeMonths(learner.birth, learner.now).age
    IN  /\ AllTooOld(ExtractWakeWindows(learner.active, learner.birth).items)
             => learner.state.ewmaWakeWindowMin = ClampWakeWindow(PreviousWakeWindow, age)
        /\ AllTooOld(ExtractNaps(learner.active, learner.birth).items)
             => learner.state.ewmaNapLengthMin = ClampNapLength(PreviousNapLength, age)

(***************************************************************************)
(* Further claims about the notification service.                          *)
(***************************************************************************)
\* The handles of the history items with status 'scheduled'.
HandlesScheduled(h) ==
  {h[i].notificationId : i \in {j \in DOMAIN h : h[j].status = "scheduled"}}

\* C27: whenever no operation of the notification service is in progress, a
\* handle is pending in the delivery service if and only if the history
\* holds an item with that handle and status 'scheduled'.
C27_HistoryAgreesWithDeliveryService ==
  bulk.pc = "idle" => HandlesPending = HandlesScheduled(history)

(***************************************************************************)
(* Part 6 - the notification service with overlapping calls (SpecAsync and *)
(*          SpecOverlap).  Every function of the service is async: a call  *)
(*          runs up to its next await, and another call may run between    *)
(*          two awaits.  A step below is the code of one call from one     *)
(*          await to the next; loading the history and writing it are two  *)
(*          steps.  The collaborators answer without error here.           *)
(***************************************************************************)
Task(t) == tasks[t]

\* The call in slot t is over: a batch call keeps its frame (its map is the
\* value it returned), any other call frees the slot.
Finish(frame) ==
  IF frame.kind = "batch" THEN [frame EXCEPT !.pc = "returned", !.toSave = <<>>,
                                             !.handle = NoHandle, !.status = "none"]
  ELSE IdleTask

\* After cancelAllNotifications: scheduleNotificationsForBlocks goes on to
\* the loop over its blocks.
AfterCancelAll(frame) ==
  IF frame.kind = "batch" /\ Len(frame.blocks) > 0
    THEN [frame EXCEPT !.pc = "request", !.i = 1, !.toSave = <<>>]
  ELSE Finish(frame)

\* The calls start.
StartScheduleOne(t, b) ==
  /\ Task(t).pc = "idle"
  /\ made < MaxItems
  /\ tasks' = [tasks EXCEPT ![t] = [IdleTask EXCEPT !.kind = "scheduleOne", !.pc = "request",
                                                    !.blocks = <<b>>, !.first = made + 1]]
  /\ made' = made + 1
  /\ UNCHANGED <<history, pending, clock, nextHandle, appended, bulk, last, coreVars>>

StartCancelNotification(t, handle) ==
  /\ Task(t).pc = "idle"
  /\ tasks' = [tasks EXCEPT ![t] = [IdleTask EXCEPT !.kind = "cancelOne", !.pc = "cancelOne",
                                                    !.handle = handle]]
  /\ UNCHANGED <<history, pending, clock, nextHandle, made, appended, bulk, last, coreVars>>

StartCancelAll(t) ==
  /\ Task(t).pc = "idle"
  /\ tasks' = [tasks EXCEPT ![t] = [IdleTask EXCEPT !.kind = "cancelAll", !.pc = "cancelAll"]]
  /\ UNCHANGED <<history, pending, clock, nextHandle, made, appended, bulk, last, coreVars>>

\* The schedule screen's effect calls scheduleNotificationsForBlocks and does
\* not wait for it.
StartBatch(t, blocks) ==
  /\ Task(t).pc = "idle"
  /\ made + Len(blocks) <= MaxBatch * Cardinality(TaskIds)
  /\ tasks' = [tasks EXCEPT ![t] = [IdleTask EXCEPT !.kind = "batch", !.pc = "cancelAll",
                                                    !.blocks = blocks, !.first = made + 1]]
  /\ made' = made + Len(blocks)
  /\ UNCHANGED <<history, pending, clock, nextHandle, appended, bulk, last, coreVars>>

\* The delivery service fires a pending notification; the listener of
\* App.tsx starts markNotificationAsSent with its handle.
DeliverAsync(t, p) ==
  /\ Task(t).pc = "idle"
  /\ p \in pending
  /\ BlockStart(p.block) <= clock
  /\ pending' = pending \ {p}
  /\ tasks' = [tasks EXCEPT ![t] = [IdleTask EXCEPT !.kind = "markSent", !.pc = "statusLoad",
                                                    !.handle = p.handle, !.status = "sent"]]
  /\ UNCHANGED <<history, clock, nextHandle, made, appended, bulk, last, coreVars>>

\* scheduleNotificationForBlock up to the await of the history load: the
\* branch is decided, the notification is requested when it is 'request'.
Request(t) ==
  /\ Task(t).pc = "request"
  /\ \E permission \in BOOLEAN :
       LET b == Task(t).blocks[Task(t).i]
           branch == Decision(permission, BlockStart(b), clock, clock)
       IN  /\ pending' = IF branch = "request"
                         THEN pending \cup {[handle |-> nextHandle, block |-> b]}
                         ELSE pending
           /\ nextHandle' = IF branch = "request" THEN nextHandle + 1 ELSE nextHandle
           /\ tasks' = [tasks EXCEPT ![t].pc = "itemLoad",
                                     ![t].handle = IF branch = "request" THEN nextHandle
                                                   ELSE NoHandle,
                                     ![t].status = CASE branch = "request" -> "scheduled"
                                                     [] branch = "past" -> "sent"
                                                     [] OTHER -> "canceled"]
  /\ UNCHANGED <<history, clock, made, appended, bulk, last, coreVars>>

\* saveNotificationToHistory: the history is loaded, the item pushed and the
\* last 100 kept ...
ItemLoad(t) ==
  /\ Task(t).pc = "itemLoad"
  /\ LET f == Task(t)
         item == HistoryItem(f.first + f.i - 1, f.blocks[f.i], f.handle, f.status)
     IN  tasks' = [tasks EXCEPT ![t].pc = "itemSave",
                                ![t].toSave = Trim(Append(history, item))]
  /\ UNCHANGED <<history, pending, clock, nextHandle, made, appended, bulk, last, coreVars>>

\* ... and written; the call returns the handle, and the loop of
\* scheduleNotificationsForBlocks goes to the next block.
ItemSave(t) ==
  /\ Task(t).pc = "itemSave"
  /\ history' = Task(t).toSave
  /\ LET f == Task(t)
         g == [f EXCEPT !.map = MapSet(f.map, f.blocks[f.i], f.handle)]
     IN  tasks' = [tasks EXCEPT ![t] =
                     IF f.i < Len(f.blocks)
                     THEN [g EXCEPT !.pc = "request", !.i = f.i + 1, !.toSave = <<>>,
                                    !.handle = NoHandle, !.status = "none"]
                     ELSE Finish(g)]
  /\ UNCHANGED <<pending, clock, nextHandle, made, appended, bulk, last, coreVars>>

\* cancelNotification: the delivery service cancels the notification.
CancelOneService(t) ==
  /\ Task(t).pc = "cancelOne"
  /\ pending' = {p \in pending : p.handle # Task(t).handle}
  /\ tasks' = [tasks EXCEPT ![t].pc = "statusLoad", ![t].status = "canceled"]
  /\ UNCHANGED <<history, clock, nextHandle, made, appended, bulk, last, coreVars>>

\* cancelNotification and markNotificationAsSent: the history is loaded and
\* the item with the handle, when it is 'scheduled', is given the status ...
StatusLoad(t) ==
  /\ Task(t).pc = "statusLoad"
  /\ LET changed == SetStatus(history, Task(t).handle, Task(t).status)
     IN  tasks' = [tasks EXCEPT ![t] =
                     IF changed # history
                     THEN [Task(t) EXCEPT !.pc = "statusSave", !.toSave = changed]
                     ELSE IdleTask]
  /\ UNCHANGED <<history, pending, clock, nextHandle, made, appended, bulk, last, coreVars>>

\* ... and the history is written.
StatusSave(t) ==
  /\ Task(t).pc = "statusSave"
  /\ history' = Task(t).toSave
  /\ tasks' = [tasks EXCEPT ![t] = IdleTask]
  /\ UNCHANGED <<pending, clock, nextHandle, made, appended, bulk, last, coreVars>>

\* cancelAllNotifications: the delivery service cancels everything pending,
CancelAllService(t) ==
  /\ Task(t).pc = "cancelAll"
  /\ pending' = {}
  /\ tasks' = [tasks EXCEPT ![t].pc = "cancelAllLoad"]
  /\ UNCHANGED <<history, clock, nextHandle, made, appended, bulk, last, coreVars>>

\* the history is loaded and its 'scheduled' items are made 'canceled',
CancelAllLoad(t) ==
  /\ Task(t).pc = "cancelAllLoad"
  /\ LET changed == CancelAllInHistory(history)
     IN  tasks' = [tasks EXCEPT ![t] =
                     IF changed # history
                     THEN [Task(t) EXCEPT !.pc = "cancelAllSave", !.toSave = changed]
                     ELSE AfterCancelAll(Task(t))]
  /\ UNCHANGED <<history, pending, clock, nextHandle, made, appended, bulk, last, coreVars>>

\* and the history is written when an item changed.
CancelAllSave(t) ==
  /\ Task(t).pc = "cancelAllSave"
  /\ history' = Task(t).toSave
  /\ tasks' = [tasks EXCEPT ![t] = AfterCancelAll(Task(t))]
  /\ UNCHANGED <<pending, clock, nextHandle, made, appended, bulk, last, coreVars>>

TickAsync ==
  /\ clock < MaxClock
  /\ clock' = clock + 1
  /\ UNCHANGED <<history, pending, nextHandle, made, appended, bulk, last, tasks, coreVars>>

\* SpecAsync: scheduleNotificationForBlock, cancelNotification,
\* cancelAllNotifications and the delivery listener's markNotificationAsSent,
\* in any interleaving of their steps.
NextAsync ==
  \/ TickAsync
  \/ \E t \in TaskIds, b \in BlockIds : StartScheduleOne(t, b)
  \/ \E t \in TaskIds, h \in 1..(nextHandle - 1) : StartCancelNotification(t, h)
  \/ \E t \in TaskIds : StartCancelAll(t)
  \/ \E t \in TaskIds, p \in pending : DeliverAsync(t, p)
  \/ \E t \in TaskIds : Request(t)
  \/ \E t \in TaskIds : ItemLoad(t)
  \/ \E t \in TaskIds : ItemSave(t)
  \/ \E t \in TaskIds : CancelOneService(t)
  \/ \E t \in TaskIds : StatusLoad(t)
  \/ \E t \in TaskIds : StatusSave(t)
  \/ \E t \in TaskIds : CancelAllService(t)
  \/ \E t \in TaskIds : CancelAllLoad(t)
  \/ \E t \in TaskIds : CancelAllSave(t)

SpecAsync == Init /\ [][NextAsync]_vars

\* C25: under any interleaving of the steps of concurrently running
\* scheduleNotificationForBlock, markNotificationAsSent, cancelNotification
\* and cancelAllNotifications, an item of the persisted history stays in it,
\* and an item that is 'sent' or 'canceled' keeps its status.
C25_NoItemLostNoFinalStatusChanged ==
  [][ \A i \in DOMAIN history :
        \E j \in DOMAIN history' :
          /\ history'[j].id = history[i].id
          /\ history[i].status \in {"sent", "canceled"}
               => history'[j].status = history[i].status ]_vars

\* SpecOverlap: the schedule screen starts scheduleNotificationsForBlocks on
\* every change of the schedule without waiting for the previous call; two
\* calls, each in its slot, the second started at any step of the first.
OverlapBatches == {<<1>>, <<1, 2>>, <<2, 1>>}

NextOverlap ==
  \/ \E t \in TaskIds, blocks \in OverlapBatches : StartBatch(t, blocks)
  \/ \E t \in TaskIds : CancelAllService(t)
  \/ \E t \in TaskIds : CancelAllLoad(t)
  \/ \E t \in TaskIds : CancelAllSave(t)
  \/ \E t \in TaskIds : Request(t)
  \/ \E t \in TaskIds : ItemLoad(t)
  \/ \E t \in TaskIds : ItemSave(t)

SpecOverlap == Init /\ [][NextOverlap]_vars

\* Both calls have returned.
BothReturned == \A t \in TaskIds : Task(t).pc = "returned"

\* C26: after two overlapping calls of scheduleNotificationsForBlocks have
\* completed, what is pending in the delivery service, and what the history
\* holds as 'scheduled', is what one of the two calls scheduled (the map it
\* returned): no block has two pending reminders and none of the other
\* call's reminders is pending.
C26_OverlappingBatchesLeaveOneBatch ==
  BothReturned =>
    \E t \in TaskIds :
      /\ pending = {[handle |-> e[2], block |-> e[1]] : e \in Task(t).map}
      /\ HandlesScheduled(history) = {e[2] : e \in Task(t).map}

SplitTips ==
  {i \in DOMAIN coach.first.tips : coach.first.tips[i].title = "Split Night Detected"}

ScreenBirths == {At(0 - 400, 0, 0), At(60, 0, 0)}

ScreenSessionLists == {l \in SchedSessionLists : l.deleted = {} /\ Cardinality(l.active) <= 1}

NotNotified == [called |-> FALSE, blocks |-> <<>>, origin |-> "none"]

InitScreen ==
  /\ history = <<>>
  /\ pending = {}
  /\ clock = 0
  /\ nextHandle = 1
  /\ made = 0
  /\ appended = <<>>
  /\ bulk = IdleBulk
  /\ last = NoOp
  /\ tasks = NoTasks
  /\ learner = NoLearner
  /\ store = NoStore
  /\ coach = NoCoach
  /\ \E l \in ScreenSessionLists, now \in SchedClocks :
       schedule = [pc |-> "screen", active |-> l.active, state |-> NullState, now |-> now,
                   todayBlocks |-> <<>>, tomorrowBlocks |-> <<>>, whatIfAdjustment |-> 0,
                   isWhatIfMode |-> FALSE, isLoading |-> FALSE, error |-> FALSE,
                   origin |-> "none", notified |-> NotNotified]

\* The effect of the screen on the store after an action: replaced says
\* that the action put new block arrays into the store.
ScreenEffect(before, after, replaced) ==
  IF (replaced \/ after.isWhatIfMode # before.isWhatIfMode)
       /\ ~after.isWhatIfMode /\ Len(after.todayBlocks) > 0
    THEN [after EXCEPT !.notified = [called |-> TRUE,
                                     blocks |-> after.todayBlocks \o after.tomorrowBlocks,
                                     origin |-> after.origin]]
  ELSE after

\* useScheduleStore.generateSchedule(babyProfile): [threw, state].
StoreGenerateSchedule(st, birth) ==
  LET started == [st EXCEPT !.isLoading = TRUE, !.error = FALSE, !.isWhatIfMode = FALSE]
      r == GenerateSchedule(st.active, st.state, birth, 0, NoReference, st.now)
  IN  IF r.threw
        THEN [threw |-> TRUE, state |-> [started EXCEPT !.error = TRUE, !.isLoading = FALSE]]
      ELSE [threw |-> FALSE,
            state |-> [started EXCEPT !.todayBlocks = r.today, !.tomorrowBlocks = r.tomorrow,
                                      !.whatIfAdjustment = 0, !.isWhatIfMode = FALSE,
                                      !.isLoading = FALSE, !.error = FALSE,
                                      !.origin = "normal"]]

\* useScheduleStore.generateWhatIfSchedule(adjustment, babyProfile)
StoreGenerateWhatIfSchedule(st, adjustment, birth) ==
  LET started == [st EXCEPT !.isLoading = TRUE, !.error = FALSE, !.isWhatIfMode = TRUE]
      r == GenerateWhatIfSchedule(st.active, st.state, birth, adjustment, st.now)
  IN  IF r.threw
        THEN [threw |-> TRUE, state |-> [started EXCEPT !.error = TRUE, !.isLoading = FALSE]]
      ELSE [threw |-> FALSE,
            state |-> [started EXCEPT !.todayBlocks = r.today, !.tomorrowBlocks = r.tomorrow,
                                      !.whatIfAdjustment = adjustment, !.isWhatIfMode = TRUE,
                                      !.isLoading = FALSE, !.error = FALSE,
                                      !.origin = "whatIf"]]

\* The screen's mount effect, or the learner store after an update, calls
\* generateSchedule.
ScreenGenerateSchedule(birth) ==
  /\ schedule.pc = "screen"
  /\ \E r \in {StoreGenerateSchedule(schedule, birth)} :
       schedule' = ScreenEffect(schedule, r.state, ~r.threw)
  /\ UNCHANGED <<notifVars, learner, store, coach>>

\* handleSliderPress: generateWhatIfSchedule(value, profile)
ScreenGenerateWhatIfSchedule(adjustment, birth) ==
  /\ schedule.pc = "screen"
  /\ \E r \in {StoreGenerateWhatIfSchedule(schedule, adjustment, birth)} :
       schedule' = ScreenEffect(schedule, r.state, ~r.threw)
  /\ UNCHANGED <<notifVars, learner, store, coach>>

\* resetWhatIf: the flag and the adjustment are reset, then generateSchedule()
\* runs with the learner store's profile.
ScreenResetWhatIf(birth) ==
  /\ schedule.pc = "screen"
  /\ \E r \in {StoreGenerateSchedule([schedule EXCEPT !.isWhatIfMode = FALSE,
                                                      !.whatIfAdjustment = 0], birth)} :
       schedule' = ScreenEffect(schedule, r.state, ~r.threw)
  /\ UNCHANGED <<notifVars, learner, store, coach>>

NextScreen ==
  \/ \E birth \in ScreenBirths : ScreenGenerateSchedule(birth)
  \/ \E adjustment \in Adjustments, birth \in ScreenBirths :
       ScreenGenerateWhatIfSchedule(adjustment, birth)
  \/ \E birth \in ScreenBirths : ScreenResetWhatIf(birth)

SpecScreen == InitScreen /\ [][NextScreen]_vars

\* C29: scheduleNotificationsForBlocks is never invoked with blocks that a
\* what-if generation produced, in any state the store and the screen reach
\* through generateSchedule, generateWhatIfSchedule and resetWhatIf, their
\* error paths included.
C29_NoNotificationsForWhatIfBlocks ==
  schedule.notified.called => schedule.notified.origin # "whatIf"

(***************************************************************************)
(* Part 8 - the session store with overlapping calls (SpecStoreAsync).     *)
(*          addSession, updateSession and deleteSession read the           *)
(*          collection in memory and build the new one when they are       *)
(*          called, await saveSleepSessions, whose write to storage takes  *)
(*          place during the await, and replace the collection in memory   *)
(*          when they resume.  Another call may run before the write and   *)
(*          between the write and the resumption.  Storage does not fail   *)
(*          here, and the clock stands still.  added and flagged record    *)
(*          the ids given to addSession and the ids deleteSession found    *)
(*          and flagged (observation only).                                *)
(***************************************************************************)
IdleCall == [pc |-> "idle", updatedSessions |-> <<>>]

InitStoreAsync ==
  /\ history = <<>>
  /\ pending = {}
  /\ clock = 0
  /\ nextHandle = 1
  /\ made = 0
  /\ appended = <<>>
  /\ bulk = IdleBulk
  /\ last = NoOp
  /\ tasks = NoTasks
  /\ learner = NoLearner
  /\ schedule = NoSchedule
  /\ coach = NoCoach
  /\ store = [pc |-> "async", sessions |-> <<>>, persisted |-> <<>>, error |-> FALSE,
              tick |-> 1, nextId |-> 1, calls |-> [t \in TaskIds |-> IdleCall],
              added |-> {}, flagged |-> {}]

\* The ids of the sessions added here.
AsyncSessionIds == {1, 2}

\* The updates given to updateSession here: a new end.
AsyncUpdates == {u \in Updates : u.value = At(50, 9, 0)}

\* const currentSessions = get().sessions; const updatedSessions = ...;
\* the call then awaits saveSleepSessions(updatedSessions).
Awaiting(updatedSessions) == [pc |-> "write", updatedSessions |-> updatedSessions]

CallAddSession(t) ==
  /\ store.pc = "async"
  /\ store.calls[t].pc = "idle"
  /\ store.nextId \in AsyncSessionIds
  /\ LET session == NewSession(store.nextId, StoreClocks[1], StoreClocks[2], StoreNow)
     IN  store' = [store EXCEPT !.calls[t] = Awaiting(Append(store.sessions, session)),
                                !.nextId = store.nextId + 1,
                                !.added = store.added \cup {store.nextId}]
  /\ UNCHANGED otherVars

CallUpdateSession(t, id, updates) ==
  /\ store.pc = "async"
  /\ store.calls[t].pc = "idle"
  /\ store' = [store EXCEPT !.calls[t] =
                 Awaiting([i \in DOMAIN store.sessions |->
                             IF store.sessions[i].id = id
                               THEN Merge(store.sessions[i], updates, StoreNow)
                               ELSE store.sessions[i]])]
  /\ UNCHANGED otherVars

CallDeleteSession(t, id) ==
  /\ store.pc = "async"
  /\ store.calls[t].pc = "idle"
  /\ store' = [store EXCEPT !.calls[t] =
                 Awaiting([i \in DOMAIN store.sessions |->
                             IF store.sessions[i].id = id
                               THEN MarkDeleted(store.sessions[i], StoreNow)
                               ELSE store.sessions[i]]),
                            !.flagged = IF \E i \in DOMAIN store.sessions :
                                             store.sessions[i].id = id
                                        THEN store.flagged \cup {id} ELSE store.flagged]
  /\ UNCHANGED otherVars

\* saveSleepSessions writes the collection of the call to storage.
WriteSessions(t) ==
  /\ store.pc = "async"
  /\ store.calls[t].pc = "write"
  /\ store' = [store EXCEPT !.persisted = store.calls[t].updatedSessions,
                            !.calls[t].pc = "set"]
  /\ UNCHANGED otherVars

\* The call resumes: set({ sessions: updatedSessions, error: null }).
SetSessions(t) ==
  /\ store.pc = "async"
  /\ store.calls[t].pc = "set"
  /\ store' = [store EXCEPT !.sessions = store.calls[t].updatedSessions,
                            !.error = FALSE,
                            !.calls[t] = IdleCall]
  /\ UNCHANGED otherVars

NextStoreAsync ==
  \/ \E t \in TaskIds : CallAddSession(t)
  \/ \E t \in TaskIds, id \in AsyncSessionIds, updates \in AsyncUpdates :
       CallUpdateSession(t, id, updates)
  \/ \E t \in TaskIds, id \in AsyncSessionIds : CallDeleteSession(t, id)
  \/ \E t \in TaskIds : WriteSessions(t)
  \/ \E t \in TaskIds : SetSessions(t)

SpecStoreAsync == InitStoreAsync /\ [][NextStoreAsync]_vars

\* Every call has completed.
NoCallInProgress == \A t \in TaskIds : store.calls[t].pc = "idle"

HoldsSession(list, id) == \E i \in DOMAIN list : list[i].id = id

HoldsDeleted(list, id) == \E i \in DOMAIN list : list[i].id = id /\ list[i].deleted

\* C30: once all the concurrently running addSession, updateSession and
\* deleteSession calls have completed, every session an addSession added is
\* in the collection in memory and in the persisted one, every session a
\* deleteSession flagged is still flagged deleted, and the collection in
\* memory equals the persisted one.
C30_ConcurrentStoreCallsLoseNothing ==
  NoCallInProgress =>
    /\ \A id \in store.added :
         HoldsSession(store.sessions, id) /\ HoldsSession(store.persisted, id)
    /\ \A id \in store.flagged :
         HoldsDeleted(store.sessions, id) /\ HoldsDeleted(store.persisted, id)
    /\ store.sessions = store.persisted

====
